---- MODULE Spec2Model ----
(***************************************************************************)
(* A model of heed's polymorphic table handle, PolyDatabase                *)
(* (heed/src/db/polymorph.rs): one table of one environment, seen through  *)
(* one write transaction.  Keys and values are the ENCODED byte strings;   *)
(* the table is ordered byte-lexicographically on the keys.                *)
(*                                                                         *)
(* The handle's methods are translated from polymorph.rs.  The engine      *)
(* calls they make (mdb_get, mdb_put, mdb_del, mdb_drop, mdb_stat), the    *)
(* cursor (RoCursor / RwCursor) and the iterator types (RoIter, RoRange,   *)
(* RoPrefix, ...) live outside polymorph.rs; they are modelled from the    *)
(* specification's sections 4.2, 4.4 and 6 and from the documentation      *)
(* tests of polymorph.rs.  The engine's calls end with MDB_SUCCESS or     *)
(* MDB_NOTFOUND, with MDB_KEYEXIST for an append out of order, and, while  *)
(* the engine is failing, with the code of its failure.                    *)
(*                                                                         *)
(* Spec has the point operations and the read-only iterators, SpecReserved *)
(* has put_reserved with its writers, SpecMut has every mutation of the    *)
(* table, the mutable iterators' del_current and put_current among them.   *)
(* SpecEnv calls every method with a transaction of the handle's           *)
(* environment or of another one, on an engine that may start failing;     *)
(* SpecBorrow calls them while values, entries and iterators of earlier    *)
(* calls are held, as far as the references they hold admit; SpecUniform   *)
(* reads and writes through the handle and through its uniform view;       *)
(* SpecCodec traverses with a key codec that does not decode every key;    *)
(* SpecTyped calls every method with items that may have no encoding and   *)
(* with either key codec; SpecFrame edits through a mutable ranged         *)
(* iterator in every state of it, the exhausted one included; SpecLoop     *)
(* runs delete_range one step of its loop at a time.                       *)
(***************************************************************************)
EXTENDS Integers, Sequences, FiniteSets, TLC

VARIABLES table, res, it, yielded, written, cleared, edit, other, failure,
          held, cursors

vars ==
    <<table, res, it, yielded, written, cleared, edit, other, failure, held,
      cursors>>

-----------------------------------------------------------------------------
(* Bounds and input domains *)

\* The greatest number of entries the table is let to hold.
MaxEntries == 3

\* The encoded keys the callers use (never empty: the engine rejects an
\* empty key): a key, a key that extends it, the key that follows its
\* one-byte increment, and the same around a last byte of 0xFF.
Keys == {<<0>>, <<0, 255>>, <<1>>, <<255>>, <<255, 0>>, <<255, 255>>}

\* The encoded values: the encoding of the unit value and a one-byte value.
Vals == {<<>>, <<1>>}

\* The encoded prefixes the callers use: every key, and the empty prefix.
Prefixes == Keys \cup {<<>>}

-----------------------------------------------------------------------------
(* Option and Result *)

None == <<>>

Some(x) == <<x>>

Ok(x) == [ok |-> TRUE, val |-> x]

Err(e) == [ok |-> FALSE, val |-> e]

-----------------------------------------------------------------------------
(* Byte strings: the order of the engine and of Rust's slices *)

Min(a, b) == IF a <= b THEN a ELSE b

\* a < b, byte-lexicographically: at the first index where they differ a
\* holds the smaller byte, or a is a proper prefix of b.
LexLess(a, b) ==
    \/ \E i \in 1..Min(Len(a), Len(b)) :
          /\ a[i] < b[i]
          /\ \A j \in 1..(i - 1) : a[j] = b[j]
    \/ /\ Len(a) < Len(b)
       /\ \A j \in 1..Len(a) : a[j] = b[j]

LexLeq(a, b) == a = b \/ LexLess(a, b)

\* <[u8]>::starts_with
starts_with(key, prefix) ==
    /\ Len(prefix) <= Len(key)
    /\ \A j \in 1..Len(prefix) : key[j] = prefix[j]

\* The least / greatest byte string of a non-empty finite set.
LexMin(S) == CHOOSE k \in S : \A o \in S : LexLeq(k, o)

LexMax(S) == CHOOSE k \in S : \A o \in S : LexLeq(o, k)

-----------------------------------------------------------------------------
(* The engine's table: a function from the keys present to their values *)

EmptyTable == [k \in {} |-> <<>>]

\* Whether the engine is failing: failure is the code every call of the
\* engine then ends with (the transaction has become invalid, the
\* environment has met a fatal error), and MDB_SUCCESS while it is healthy.
Failing == failure # "MDB_SUCCESS"

\* raw_get
mdb_get(t, key) ==
    CASE Failing         -> [rc |-> failure, data |-> <<>>]
      [] key \in DOMAIN t -> [rc |-> "MDB_SUCCESS", data |-> t[key]]
      [] OTHER           -> [rc |-> "MDB_NOTFOUND", data |-> <<>>]

\* raw_put with flags 0: insert or overwrite.
mdb_put(t, key, data) ==
    IF Failing
    THEN [rc |-> failure, t |-> t]
    ELSE [rc |-> "MDB_SUCCESS",
          t  |-> [k \in DOMAIN t \cup {key} |-> IF k = key THEN data ELSE t[k]]]

\* raw_put with the strict-append flag, MDB_APPEND: the key must be greater
\* than every key of the table, and the table keeps its contents otherwise.
mdb_put_append(t, key, data) ==
    CASE Failing -> [rc |-> failure, t |-> t]
      [] \A k \in DOMAIN t : LexLess(k, key) ->
            [rc |-> "MDB_SUCCESS",
             t  |-> [k \in DOMAIN t \cup {key} |->
                        IF k = key THEN data ELSE t[k]]]
      [] OTHER -> [rc |-> "MDB_KEYEXIST", t |-> t]

\* raw_put with the reserve flag, MDB_RESERVE: the key gets a region of the
\* size asked for, which holds whatever the storage held there: region.
mdb_put_reserve(t, key, region) ==
    IF Failing
    THEN [rc |-> failure, t |-> t]
    ELSE [rc |-> "MDB_SUCCESS",
          t  |-> [k \in DOMAIN t \cup {key} |->
                     IF k = key THEN region ELSE t[k]]]

\* raw_delete
mdb_del(t, key) ==
    CASE Failing -> [rc |-> failure, t |-> t]
      [] key \in DOMAIN t ->
            [rc |-> "MDB_SUCCESS", t |-> [k \in DOMAIN t \ {key} |-> t[k]]]
      [] OTHER -> [rc |-> "MDB_NOTFOUND", t |-> t]

\* drop_table_contents
mdb_drop(t) ==
    IF Failing
    THEN [rc |-> failure, t |-> t]
    ELSE [rc |-> "MDB_SUCCESS", t |-> EmptyTable]

\* raw_stat: ms_entries, the number of entries, and ms_depth, the depth of
\* the tree: none for the empty table, one page for the tables of this model.
mdb_stat(t) ==
    IF Failing
    THEN [rc |-> failure, ms_entries |-> 0, ms_depth |-> 0]
    ELSE [rc |-> "MDB_SUCCESS",
          ms_entries |-> Cardinality(DOMAIN t),
          ms_depth |-> IF DOMAIN t = {} THEN 0 ELSE 1]

-----------------------------------------------------------------------------
(* The cursor.  A cursor is fresh (no positioning call yet), at a key (the *)
(* key of the entry it stands on, or stood on before del_current removed   *)
(* it), or past the end (a seek found no key at or after its argument).    *)
(* A movement gives the cursor afterwards and the entry found, if any.     *)

FreshCursor == [st |-> "fresh", key |-> <<>>]

\* RoCursor::new / RwCursor::new
open_cursor == IF Failing THEN Err(failure) ELSE Ok(FreshCursor)

At(key) == [st |-> "at", key |-> key]

PastEnd == [st |-> "eof", key |-> <<>>]

Entry(t, key) == <<key, t[key]>>

\* The key of the entry a movement found.
FoundKey(m) == m.ent[1][1]

\* A movement that looked for the least key of S.
Moved(t, miss, S) ==
    CASE Failing -> [cur |-> miss, rc |-> failure, ent |-> None]
      [] S = {}  -> [cur |-> miss, rc |-> "MDB_NOTFOUND", ent |-> None]
      [] OTHER   -> [cur |-> At(LexMin(S)), rc |-> "MDB_SUCCESS",
                     ent |-> Some(Entry(t, LexMin(S)))]

\* A movement that looked for the greatest key of S.
MovedBack(t, miss, S) ==
    CASE Failing -> [cur |-> miss, rc |-> failure, ent |-> None]
      [] S = {}  -> [cur |-> miss, rc |-> "MDB_NOTFOUND", ent |-> None]
      [] OTHER   -> [cur |-> At(LexMax(S)), rc |-> "MDB_SUCCESS",
                     ent |-> Some(Entry(t, LexMax(S)))]

\* A movement before any positioning call is an error.
Unpositioned(c) == [cur |-> c, rc |-> "EINVAL", ent |-> None]

move_on_first(t, c) == Moved(t, PastEnd, DOMAIN t)

move_on_last(t, c) == MovedBack(t, PastEnd, DOMAIN t)

\* The first entry whose key is >= key, or none.
move_on_key_greater_than_or_equal_to(t, c, key) ==
    Moved(t, PastEnd, {k \in DOMAIN t : LexLeq(key, k)})

\* The entry after the cursor's position: after the key it stands on, also
\* when del_current removed that entry.  Past the end there is none.
move_on_next(t, c) ==
    CASE c.st = "at"    -> Moved(t, c, {k \in DOMAIN t : LexLess(c.key, k)})
      [] c.st = "eof"   -> Moved(t, c, {})
      [] c.st = "fresh" -> Unpositioned(c)

\* The entry before the cursor's position; from past the end (a seek that
\* found nothing) this is the last entry of the table.
move_on_prev(t, c) ==
    CASE c.st = "at"    -> MovedBack(t, c, {k \in DOMAIN t : LexLess(k, c.key)})
      [] c.st = "eof"   -> move_on_last(t, c)
      [] c.st = "fresh" -> Unpositioned(c)

-----------------------------------------------------------------------------
(* The codecs.  A typed item is a string of integers; its encoding is the  *)
(* same string when every integer is a byte, and it has no encoding        *)
(* otherwise.  Decoding gives the bytes back (the ByteSlice codec).        *)

\* KC::bytes_encode(..).map_err(Error::Encoding)
bytes_encode(item) ==
    IF \A i \in 1..Len(item) : item[i] \in 0..255
    THEN Ok(item)
    ELSE Err("Encoding")

\* The codecs of the keys: ByteSlice, and Str, whose items are UTF-8.
Codecs == {"ByteSlice", "Str"}

\* KC::bytes_decode(..).map_err(Error::Decoding): ByteSlice gives the bytes
\* back; Str does when they are UTF-8, which no string with the byte 0xFF is.
bytes_decode(kc, bytes) ==
    IF kc = "Str" /\ \E n \in 1..Len(bytes) : bytes[n] = 255
    THEN Err("Decoding")
    ELSE Ok(bytes)

-----------------------------------------------------------------------------
(* The point operations of the handle.  Each gives the call's result, ret, *)
(* and the table afterwards, t.                                            *)

\* get without the not-found arm: the engine's not-found is returned as an
\* error.
get_not_found_is_error(t, key) ==
    LET key_bytes == bytes_encode(key)
        result    == mdb_get(t, key_bytes.val)
    IN  IF ~key_bytes.ok THEN key_bytes
        ELSE CASE result.rc = "MDB_SUCCESS" -> Ok(Some(result.data))
               [] OTHER                     -> Err(result.rc)

\* PolyDatabase::get
get(t, key) ==
    LET key_bytes == bytes_encode(key)
        result    == mdb_get(t, key_bytes.val)
    IN  IF ~key_bytes.ok THEN key_bytes
        ELSE CASE result.rc = "MDB_SUCCESS"  -> Ok(Some(result.data))
               [] result.rc = "MDB_NOTFOUND" -> Ok(None)
               [] OTHER                      -> Err(result.rc)

\* What a cursor movement returns to the handle: the entry found, none, or
\* the engine's error.
Found(m) ==
    CASE m.rc = "MDB_SUCCESS"  -> Ok(m.ent)
      [] m.rc = "MDB_NOTFOUND" -> Ok(None)
      [] OTHER                 -> Err(m.rc)

\* get_lower_than that returns the entry the seek landed on when its key is
\* the key asked for.
get_lower_than_keeps_equal(t, key) ==
    LET key_bytes == bytes_encode(key)
        seek == move_on_key_greater_than_or_equal_to(t, FreshCursor,
                                                     key_bytes.val)
    IN  CASE ~open_cursor.ok -> open_cursor
          [] ~key_bytes.ok -> key_bytes
          [] ~Found(seek).ok -> Found(seek)
          [] seek.ent # None /\ FoundKey(seek) = key_bytes.val -> Found(seek)
          [] OTHER -> Found(move_on_prev(t, seek.cur))

\* PolyDatabase::get_lower_than
get_lower_than(t, key) ==
    LET key_bytes == bytes_encode(key)
        seek == move_on_key_greater_than_or_equal_to(t, FreshCursor,
                                                     key_bytes.val)
    IN  CASE ~open_cursor.ok -> open_cursor
          [] ~key_bytes.ok -> key_bytes
          [] ~Found(seek).ok -> Found(seek)
          [] OTHER -> Found(move_on_prev(t, seek.cur))

\* get_lower_than_or_equal_to that steps back from wherever the seek landed.
get_lower_than_or_equal_to_strict(t, key) ==
    LET key_bytes == bytes_encode(key)
        seek == move_on_key_greater_than_or_equal_to(t, FreshCursor,
                                                     key_bytes.val)
    IN  CASE ~open_cursor.ok -> open_cursor
          [] ~key_bytes.ok -> key_bytes
          [] ~Found(seek).ok -> Found(seek)
          [] OTHER -> Found(move_on_prev(t, seek.cur))

\* PolyDatabase::get_lower_than_or_equal_to
get_lower_than_or_equal_to(t, key) ==
    LET key_bytes == bytes_encode(key)
        seek == move_on_key_greater_than_or_equal_to(t, FreshCursor,
                                                     key_bytes.val)
    IN  CASE ~open_cursor.ok -> open_cursor
          [] ~key_bytes.ok -> key_bytes
          [] ~Found(seek).ok -> Found(seek)
          [] seek.ent # None /\ FoundKey(seek) = key_bytes.val -> Found(seek)
          [] OTHER -> Found(move_on_prev(t, seek.cur))

\* get_greater_than that returns the entry the seek landed on whatever its
\* key.
get_greater_than_keeps_equal(t, key) ==
    LET key_bytes == bytes_encode(key)
        seek == move_on_key_greater_than_or_equal_to(t, FreshCursor,
                                                     key_bytes.val)
    IN  CASE ~open_cursor.ok -> open_cursor
          [] ~key_bytes.ok -> key_bytes
          [] OTHER -> Found(seek)

\* PolyDatabase::get_greater_than
get_greater_than(t, key) ==
    LET key_bytes == bytes_encode(key)
        seek == move_on_key_greater_than_or_equal_to(t, FreshCursor,
                                                     key_bytes.val)
    IN  CASE ~open_cursor.ok -> open_cursor
          [] ~key_bytes.ok -> key_bytes
          [] ~Found(seek).ok -> Found(seek)
          [] seek.ent = None -> Ok(None)
          [] LexLess(key_bytes.val, FoundKey(seek)) -> Found(seek)
          [] OTHER -> Found(move_on_next(t, seek.cur))

\* get_greater_than_or_equal_to that steps over the entry of the key asked
\* for.
get_greater_than_or_equal_to_strict(t, key) ==
    LET key_bytes == bytes_encode(key)
        seek == move_on_key_greater_than_or_equal_to(t, FreshCursor,
                                                     key_bytes.val)
    IN  CASE ~open_cursor.ok -> open_cursor
          [] ~key_bytes.ok -> key_bytes
          [] ~Found(seek).ok -> Found(seek)
          [] seek.ent = None -> Ok(None)
          [] LexLess(key_bytes.val, FoundKey(seek)) -> Found(seek)
          [] OTHER -> Found(move_on_next(t, seek.cur))

\* PolyDatabase::get_greater_than_or_equal_to
get_greater_than_or_equal_to(t, key) ==
    LET key_bytes == bytes_encode(key)
        seek == move_on_key_greater_than_or_equal_to(t, FreshCursor,
                                                     key_bytes.val)
    IN  CASE ~open_cursor.ok -> open_cursor
          [] ~key_bytes.ok -> key_bytes
          [] OTHER -> Found(seek)

\* PolyDatabase::first
first(t) == Found(move_on_first(t, FreshCursor))

\* last that asks the cursor for the first entry.
last_moves_on_first(t) == Found(move_on_first(t, FreshCursor))

\* PolyDatabase::last
last(t) == Found(move_on_last(t, FreshCursor))

\* put with the no-overwrite flag: a key that is present keeps its value and
\* the call fails.
put_no_overwrite(t, key, data) ==
    LET key_bytes  == bytes_encode(key)
        data_bytes == bytes_encode(data)
        result     == mdb_put(t, key_bytes.val, data_bytes.val)
    IN  CASE ~key_bytes.ok  -> [ret |-> key_bytes, t |-> t]
          [] ~data_bytes.ok -> [ret |-> data_bytes, t |-> t]
          [] key_bytes.val \in DOMAIN t -> [ret |-> Err("MDB_KEYEXIST"), t |-> t]
          [] OTHER -> [ret |-> Ok(<<>>), t |-> result.t]

\* put that hands the key to the engine before it encodes the value.
put_encodes_data_late(t, key, data) ==
    LET key_bytes  == bytes_encode(key)
        data_bytes == bytes_encode(data)
        early      == mdb_put(t, key_bytes.val, <<>>)
        result     == mdb_put(t, key_bytes.val, data_bytes.val)
    IN  CASE ~key_bytes.ok  -> [ret |-> key_bytes, t |-> t]
          [] ~data_bytes.ok -> [ret |-> data_bytes, t |-> early.t]
          [] result.rc # "MDB_SUCCESS" -> [ret |-> Err(result.rc), t |-> result.t]
          [] OTHER -> [ret |-> Ok(<<>>), t |-> result.t]

\* PolyDatabase::put
put(t, key, data) ==
    LET key_bytes  == bytes_encode(key)
        data_bytes == bytes_encode(data)
        result     == mdb_put(t, key_bytes.val, data_bytes.val)
    IN  CASE ~key_bytes.ok  -> [ret |-> key_bytes, t |-> t]
          [] ~data_bytes.ok -> [ret |-> data_bytes, t |-> t]
          [] result.rc # "MDB_SUCCESS" -> [ret |-> Err(result.rc), t |-> result.t]
          [] OTHER -> [ret |-> Ok(<<>>), t |-> result.t]

\* The reserved region handed to the writer of put_reserved: its bytes and
\* the number of them written so far.
ReservedSpace(region) == [bytes |-> region, written |-> 0]

remaining(reserved) == Len(reserved.bytes) - reserved.written

\* Write::write_all on the reserved region: the buffer is copied after the
\* bytes already written when it fits in what remains, and the write fails
\* when it does not.
write_all(reserved, buf) ==
    IF Len(buf) <= remaining(reserved)
    THEN [ret |-> Ok(<<>>),
          reserved |->
              [bytes |-> [i \in 1..Len(reserved.bytes) |->
                            IF /\ i > reserved.written
                               /\ i <= reserved.written + Len(buf)
                            THEN buf[i - reserved.written]
                            ELSE reserved.bytes[i]],
               written |-> reserved.written + Len(buf)]]
    ELSE [ret |-> Err("WriteZero"), reserved |-> reserved]

\* The caller's writer: the closure of the documentation test, which writes
\* one buffer with write_all and returns its result.
write_func(reserved, buf) == write_all(reserved, buf)

\* reserve_size_val: the first data_size bytes of what the storage holds.
reserve_size_val(data_size, storage) == SubSeq(storage, 1, data_size)

\* The table whose entry at key holds the bytes of the reserved region.
Stored(t, key, reserved) ==
    [k \in DOMAIN t |-> IF k = key THEN reserved.bytes ELSE t[k]]

\* put_reserved without the test of what remains of the region.
put_reserved_unchecked(t, key, data_size, buf, storage) ==
    LET key_bytes == bytes_encode(key)
        region    == reserve_size_val(data_size, storage)
        result    == mdb_put_reserve(t, key_bytes.val, region)
        wrote     == write_func(ReservedSpace(region), buf)
        stored    == Stored(result.t, key_bytes.val, wrote.reserved)
    IN  CASE ~key_bytes.ok -> [ret |-> key_bytes, t |-> t]
          [] result.rc # "MDB_SUCCESS" -> [ret |-> Err(result.rc), t |-> result.t]
          [] ~wrote.ret.ok -> [ret |-> wrote.ret, t |-> stored]
          [] OTHER -> [ret |-> Ok(<<>>), t |-> stored]

\* put_reserved that takes the key's entry back when the writer fails or
\* leaves bytes unwritten.
put_reserved_rolls_back(t, key, data_size, buf, storage) ==
    LET key_bytes == bytes_encode(key)
        region    == reserve_size_val(data_size, storage)
        result    == mdb_put_reserve(t, key_bytes.val, region)
        wrote     == write_func(ReservedSpace(region), buf)
        stored    == Stored(result.t, key_bytes.val, wrote.reserved)
    IN  CASE ~key_bytes.ok -> [ret |-> key_bytes, t |-> t]
          [] result.rc # "MDB_SUCCESS" -> [ret |-> Err(result.rc), t |-> result.t]
          [] ~wrote.ret.ok -> [ret |-> wrote.ret, t |-> t]
          [] remaining(wrote.reserved) = 0 -> [ret |-> Ok(<<>>), t |-> stored]
          [] OTHER -> [ret |-> Err("UnexpectedEof"), t |-> t]

\* PolyDatabase::put_reserved.  storage is what the engine's storage holds
\* where it reserves the region: bytes of unspecified content.
put_reserved(t, key, data_size, buf, storage) ==
    LET key_bytes == bytes_encode(key)
        region    == reserve_size_val(data_size, storage)
        result    == mdb_put_reserve(t, key_bytes.val, region)
        wrote     == write_func(ReservedSpace(region), buf)
        stored    == Stored(result.t, key_bytes.val, wrote.reserved)
    IN  CASE ~key_bytes.ok -> [ret |-> key_bytes, t |-> t]
          [] result.rc # "MDB_SUCCESS" -> [ret |-> Err(result.rc), t |-> result.t]
          [] ~wrote.ret.ok -> [ret |-> wrote.ret, t |-> stored]
          [] remaining(wrote.reserved) = 0 -> [ret |-> Ok(<<>>), t |-> stored]
          [] OTHER -> [ret |-> Err("UnexpectedEof"), t |-> stored]

\* append with flags 0: the put of a key anywhere in the table.
append_unordered(t, key, data) ==
    LET key_bytes  == bytes_encode(key)
        data_bytes == bytes_encode(data)
        result     == mdb_put(t, key_bytes.val, data_bytes.val)
    IN  CASE ~key_bytes.ok  -> [ret |-> key_bytes, t |-> t]
          [] ~data_bytes.ok -> [ret |-> data_bytes, t |-> t]
          [] result.rc # "MDB_SUCCESS" -> [ret |-> Err(result.rc), t |-> result.t]
          [] OTHER -> [ret |-> Ok(<<>>), t |-> result.t]

\* PolyDatabase::append
append(t, key, data) ==
    LET key_bytes  == bytes_encode(key)
        data_bytes == bytes_encode(data)
        result     == mdb_put_append(t, key_bytes.val, data_bytes.val)
    IN  CASE ~key_bytes.ok  -> [ret |-> key_bytes, t |-> t]
          [] ~data_bytes.ok -> [ret |-> data_bytes, t |-> t]
          [] result.rc # "MDB_SUCCESS" -> [ret |-> Err(result.rc), t |-> result.t]
          [] OTHER -> [ret |-> Ok(<<>>), t |-> result.t]

\* delete that reports an entry removed whatever the engine found.
delete_always_true(t, key) ==
    LET key_bytes == bytes_encode(key)
        result    == mdb_del(t, key_bytes.val)
    IN  IF ~key_bytes.ok THEN [ret |-> key_bytes, t |-> t]
        ELSE CASE result.rc \in {"MDB_SUCCESS", "MDB_NOTFOUND"} ->
                      [ret |-> Ok(TRUE), t |-> result.t]
               [] OTHER -> [ret |-> Err(result.rc), t |-> result.t]

\* delete without the not-found arm: the engine's not-found is returned as
\* an error.
delete_not_found_is_error(t, key) ==
    LET key_bytes == bytes_encode(key)
        result    == mdb_del(t, key_bytes.val)
    IN  IF ~key_bytes.ok THEN [ret |-> key_bytes, t |-> t]
        ELSE CASE result.rc = "MDB_SUCCESS" -> [ret |-> Ok(TRUE), t |-> result.t]
               [] OTHER -> [ret |-> Err(result.rc), t |-> result.t]

\* delete that removes the entries of the keys before the key as well.
delete_through(t, key) ==
    LET key_bytes == bytes_encode(key)
        result    == mdb_del(t, key_bytes.val)
        after     == [k \in {x \in DOMAIN result.t : LexLess(key_bytes.val, x)}
                         |-> result.t[k]]
    IN  IF ~key_bytes.ok THEN [ret |-> key_bytes, t |-> t]
        ELSE CASE result.rc = "MDB_SUCCESS"  -> [ret |-> Ok(TRUE), t |-> after]
               [] result.rc = "MDB_NOTFOUND" -> [ret |-> Ok(FALSE), t |-> after]
               [] OTHER -> [ret |-> Err(result.rc), t |-> result.t]

\* PolyDatabase::delete
delete(t, key) ==
    LET key_bytes == bytes_encode(key)
        result    == mdb_del(t, key_bytes.val)
    IN  IF ~key_bytes.ok THEN [ret |-> key_bytes, t |-> t]
        ELSE CASE result.rc = "MDB_SUCCESS"  -> [ret |-> Ok(TRUE), t |-> result.t]
               [] result.rc = "MDB_NOTFOUND" -> [ret |-> Ok(FALSE), t |-> result.t]
               [] OTHER -> [ret |-> Err(result.rc), t |-> result.t]

\* clear whose engine call removes nothing.
clear_removes_nothing(t) == [ret |-> Ok(<<>>), t |-> t]

\* PolyDatabase::clear
clear(t) ==
    LET result == mdb_drop(t)
    IN  IF result.rc = "MDB_SUCCESS"
        THEN [ret |-> Ok(<<>>), t |-> result.t]
        ELSE [ret |-> Err(result.rc), t |-> result.t]

\* len that reads the depth of the tree in the engine's answer.
len_reads_depth(t) ==
    LET result == mdb_stat(t)
    IN  IF result.rc = "MDB_SUCCESS"
        THEN Ok(result.ms_depth)
        ELSE Err(result.rc)

\* PolyDatabase::len
len(t) ==
    LET result == mdb_stat(t)
    IN  IF result.rc = "MDB_SUCCESS"
        THEN Ok(result.ms_entries)
        ELSE Err(result.rc)

\* is_empty with the arms of its match exchanged.
is_empty_arms_exchanged(t) ==
    LET m == move_on_first(t, FreshCursor)
    IN  CASE m.rc = "MDB_SUCCESS"  -> Ok(TRUE)
          [] m.rc = "MDB_NOTFOUND" -> Ok(FALSE)
          [] OTHER                 -> Err(m.rc)

\* PolyDatabase::is_empty
is_empty(t) ==
    LET m == move_on_first(t, FreshCursor)
    IN  CASE m.rc = "MDB_SUCCESS"  -> Ok(FALSE)
          [] m.rc = "MDB_NOTFOUND" -> Ok(TRUE)
          [] OTHER                 -> Err(m.rc)

-----------------------------------------------------------------------------
(* Interval bounds: Included(key), Excluded(key) or Unbounded. *)

Included(key) == [b |-> "Included", key |-> key]

Excluded(key) == [b |-> "Excluded", key |-> key]

Unbounded == [b |-> "Unbounded", key |-> <<>>]

Bounds(S) == {Included(k) : k \in S} \cup {Excluded(k) : k \in S} \cup {Unbounded}

\* A key satisfies a lower bound / an upper bound.
AboveStart(key, bound) ==
    CASE bound.b = "Included"  -> LexLeq(bound.key, key)
      [] bound.b = "Excluded"  -> LexLess(bound.key, key)
      [] bound.b = "Unbounded" -> TRUE

BelowEnd(key, bound) ==
    CASE bound.b = "Included"  -> LexLeq(key, bound.key)
      [] bound.b = "Excluded"  -> LexLess(key, bound.key)
      [] bound.b = "Unbounded" -> TRUE

\* One bound of a range, encoded: the match on range.start_bound() and on
\* range.end_bound() of every ranged constructor.
encode_bound(bound) ==
    LET bytes == bytes_encode(bound.key)
    IN  CASE bound.b = "Unbounded" -> Ok(Unbounded)
          [] ~bytes.ok             -> bytes
          [] bound.b = "Included"  -> Ok(Included(bytes.val))
          [] bound.b = "Excluded"  -> Ok(Excluded(bytes.val))

-----------------------------------------------------------------------------
(* Iterators.  An iterator owns a cursor and is Unstarted, Positioned or   *)
(* Exhausted; next() gives the iterator afterwards and the item yielded:   *)
(* None, Some(Ok(entry)) or Some(Err(e)).                                  *)

NoIter ==
    [kind |-> "none", state |-> "exhausted", cur |-> FreshCursor,
     start |-> Unbounded, end |-> Unbounded, prefix |-> <<>>,
     kc |-> "ByteSlice"]

\* An iterator whose keys are byte strings (KC = ByteSlice).
NewIter(kind, cursor, start, end, prefix) ==
    [kind |-> kind, state |-> "unstarted", cur |-> cursor,
     start |-> start, end |-> end, prefix |-> prefix, kc |-> "ByteSlice"]

\* The iterator a constructor makes when it is called with the key codec kc.
decoding(made, kc) ==
    IF made.ok THEN Ok([made.val EXCEPT !.kc = kc]) ELSE made

\* The item of an entry the cursor found: the entry, or the error of
\* decoding its key.
Decoded(i, entry) ==
    IF bytes_decode(i.kc, entry[1]).ok
    THEN Ok(entry)
    ELSE bytes_decode(i.kc, entry[1])

\* What a step yields after the movement m: the entry when there is one and
\* it is within the iterator's bound (keep), None and Exhausted otherwise.
\* A key that does not decode is yielded as an error, the cursor staying on
\* its entry.
Advance(i, m, keep) ==
    CASE m.rc = "MDB_SUCCESS" /\ keep ->
            [it   |-> [i EXCEPT !.state = "positioned", !.cur = m.cur],
             item |-> Some(Decoded(i, m.ent[1]))]
      [] m.rc \in {"MDB_SUCCESS", "MDB_NOTFOUND"} ->
            [it   |-> [i EXCEPT !.state = "exhausted", !.cur = m.cur],
             item |-> None]
      [] OTHER ->
            [it   |-> [i EXCEPT !.state = "exhausted", !.cur = m.cur],
             item |-> Some(Err(m.rc))]

\* An exhausted iterator that gives None and starts over.
Rewound(i) == [it |-> [i EXCEPT !.state = "unstarted"], item |-> None]

Finished(i) == [it |-> i, item |-> None]

\* Seek to the start of a range.
move_on_range_start(t, c, start_bound) ==
    LET m == move_on_key_greater_than_or_equal_to(t, c, start_bound.key)
    IN  CASE start_bound.b = "Included"  -> m
          [] start_bound.b = "Excluded"  ->
                IF m.rc = "MDB_SUCCESS" /\ FoundKey(m) = start_bound.key
                THEN move_on_next(t, m.cur)
                ELSE m
          [] start_bound.b = "Unbounded" -> move_on_first(t, c)

\* Seek to the end of a range: at or after the end bound, then one step back
\* unless the bound is Included and the seek landed on it.
move_on_range_end(t, c, end_bound) ==
    LET m == move_on_key_greater_than_or_equal_to(t, c, end_bound.key)
    IN  CASE end_bound.b = "Included"  ->
                IF m.rc = "MDB_SUCCESS" /\ FoundKey(m) = end_bound.key
                THEN m
                ELSE move_on_prev(t, m.cur)
          [] end_bound.b = "Excluded"  -> move_on_prev(t, m.cur)
          [] end_bound.b = "Unbounded" -> move_on_last(t, c)

\* advance_key without the carry: a prefix that is empty or ends with 0xFF
\* gets a zero byte appended.
advance_key_push_zero(prefix) ==
    IF prefix = <<>> \/ prefix[Len(prefix)] = 255
    THEN Excluded(prefix \o <<0>>)
    ELSE Excluded([prefix EXCEPT ![Len(prefix)] = prefix[Len(prefix)] + 1])

\* The prefix with its last byte incremented, the exclusive end of the keys
\* that start with the prefix: a trailing 0xFF cannot be incremented and
\* carries into the byte before it; an empty or all-0xFF prefix has no end.
RECURSIVE advance_key(_)
advance_key(prefix) ==
    CASE prefix = <<>> -> Unbounded
      [] prefix[Len(prefix)] = 255 ->
            advance_key(SubSeq(prefix, 1, Len(prefix) - 1))
      [] OTHER ->
            Excluded([prefix EXCEPT ![Len(prefix)] = prefix[Len(prefix)] + 1])

\* Seek to the last key that still starts with the prefix.
move_on_prefix_end(t, c, prefix) == move_on_range_end(t, c, advance_key(prefix))

\* RoIter / RwIter
iter_next(t, i) ==
    CASE i.state = "unstarted"  -> Advance(i, move_on_first(t, i.cur), TRUE)
      [] i.state = "positioned" -> Advance(i, move_on_next(t, i.cur), TRUE)
      [] i.state = "exhausted"  -> Finished(i)

\* RoRevIter / RwRevIter
rev_iter_next(t, i) ==
    CASE i.state = "unstarted"  -> Advance(i, move_on_last(t, i.cur), TRUE)
      [] i.state = "positioned" -> Advance(i, move_on_prev(t, i.cur), TRUE)
      [] i.state = "exhausted"  -> Finished(i)

\* RoRange / RwRange
range_next(t, i) ==
    LET m == IF i.state = "unstarted"
             THEN move_on_range_start(t, i.cur, i.start)
             ELSE move_on_next(t, i.cur)
    IN  IF i.state = "exhausted" THEN Finished(i)
        ELSE Advance(i, m, m.ent # None /\ BelowEnd(FoundKey(m), i.end))

\* RoRevRange / RwRevRange
rev_range_next(t, i) ==
    LET m == IF i.state = "unstarted"
             THEN move_on_range_end(t, i.cur, i.end)
             ELSE move_on_prev(t, i.cur)
    IN  IF i.state = "exhausted" THEN Finished(i)
        ELSE Advance(i, m, m.ent # None /\ AboveStart(FoundKey(m), i.start))

\* RoPrefix / RwPrefix
prefix_next(t, i) ==
    LET m == IF i.state = "unstarted"
             THEN move_on_key_greater_than_or_equal_to(t, i.cur, i.prefix)
             ELSE move_on_next(t, i.cur)
    IN  IF i.state = "exhausted" THEN Finished(i)
        ELSE Advance(i, m, m.ent # None /\ starts_with(FoundKey(m), i.prefix))

\* RoRevPrefix / RwRevPrefix
rev_prefix_next(t, i) ==
    LET m == IF i.state = "unstarted"
             THEN move_on_prefix_end(t, i.cur, i.prefix)
             ELSE move_on_prev(t, i.cur)
    IN  IF i.state = "exhausted" THEN Finished(i)
        ELSE Advance(i, m, m.ent # None /\ starts_with(FoundKey(m), i.prefix))

\* Iterator::next of the iterator's type.
next(t, i) ==
    CASE i.kind \in {"RoIter", "RwIter"}           -> iter_next(t, i)
      [] i.kind \in {"RoRevIter", "RwRevIter"}     -> rev_iter_next(t, i)
      [] i.kind \in {"RoRange", "RwRange"}         -> range_next(t, i)
      [] i.kind \in {"RoRevRange", "RwRevRange"}   -> rev_range_next(t, i)
      [] i.kind \in {"RoPrefix", "RwPrefix"}       -> prefix_next(t, i)
      [] i.kind \in {"RoRevPrefix", "RwRevPrefix"} -> rev_prefix_next(t, i)

\* del_current that leaves the cursor on the entry before the one removed,
\* as a movement back would.
del_current_moves_back(t, i) ==
    IF i.cur.st = "at" /\ i.cur.key \in DOMAIN t
    THEN [ret |-> Ok(TRUE),
          t   |-> [k \in DOMAIN t \ {i.cur.key} |-> t[k]],
          it  |-> [i EXCEPT !.cur = move_on_prev(t, i.cur).cur]]
    ELSE [ret |-> Ok(FALSE), t |-> t, it |-> i]

\* del_current that leaves the cursor on the entry after the one removed,
\* as a movement would.
del_current_moves_on(t, i) ==
    IF i.cur.st = "at" /\ i.cur.key \in DOMAIN t
    THEN [ret |-> Ok(TRUE),
          t   |-> [k \in DOMAIN t \ {i.cur.key} |-> t[k]],
          it  |-> [i EXCEPT !.cur = move_on_next(t, i.cur).cur]]
    ELSE [ret |-> Ok(FALSE), t |-> t, it |-> i]

\* del_current of a mutable iterator (RwCursor::del_current): removes the
\* entry the cursor stands on and leaves the cursor where that entry was;
\* false when there is no current entry.
del_current(t, i) ==
    CASE Failing -> [ret |-> Err(failure), t |-> t, it |-> i]
      [] i.cur.st = "at" /\ i.cur.key \in DOMAIN t ->
            [ret |-> Ok(TRUE),
             t   |-> [k \in DOMAIN t \ {i.cur.key} |-> t[k]],
             it  |-> i]
      [] OTHER -> [ret |-> Ok(FALSE), t |-> t, it |-> i]

\* put_current that leaves the cursor on the entry after the one it wrote.
put_current_moves_on(t, i, key, data) ==
    LET key_bytes  == bytes_encode(key)
        data_bytes == bytes_encode(data)
    IN  CASE ~key_bytes.ok  -> [ret |-> key_bytes, t |-> t, it |-> i]
          [] ~data_bytes.ok -> [ret |-> data_bytes, t |-> t, it |-> i]
          [] i.cur.st = "at" /\ i.cur.key \in DOMAIN t ->
                 [ret |-> Ok(TRUE),
                  t   |-> [t EXCEPT ![i.cur.key] = data_bytes.val],
                  it  |-> [i EXCEPT !.cur = move_on_next(t, i.cur).cur]]
          [] OTHER -> [ret |-> Ok(FALSE), t |-> t, it |-> i]

\* put_current of a mutable iterator (RwCursor::put_current), called with
\* the key of the current entry: overwrites the value of the entry the
\* cursor stands on and leaves the cursor there; false when there is no
\* current entry.
put_current(t, i, key, data) ==
    LET key_bytes  == bytes_encode(key)
        data_bytes == bytes_encode(data)
    IN  CASE ~key_bytes.ok  -> [ret |-> key_bytes, t |-> t, it |-> i]
          [] ~data_bytes.ok -> [ret |-> data_bytes, t |-> t, it |-> i]
          [] Failing        -> [ret |-> Err(failure), t |-> t, it |-> i]
          [] i.cur.st = "at" /\ i.cur.key \in DOMAIN t ->
                 [ret |-> Ok(TRUE),
                  t   |-> [t EXCEPT ![i.cur.key] = data_bytes.val],
                  it  |-> i]
          [] OTHER -> [ret |-> Ok(FALSE), t |-> t, it |-> i]

-----------------------------------------------------------------------------
(* The iterator constructors of the handle: Ok(iterator) or an error. *)

\* RoCursor::new(txn, self.dbi).map(|cursor| ..::new(cursor, ..))
Opened(kind, start, end, prefix) ==
    IF open_cursor.ok
    THEN Ok(NewIter(kind, open_cursor.val, start, end, prefix))
    ELSE open_cursor

\* iter that makes the reverse iterator.
iter_backwards == Opened("RoRevIter", Unbounded, Unbounded, <<>>)

\* PolyDatabase::iter
iter == Opened("RoIter", Unbounded, Unbounded, <<>>)

\* PolyDatabase::iter_mut
iter_mut == Opened("RwIter", Unbounded, Unbounded, <<>>)

\* rev_iter that makes the forward iterator.
rev_iter_forwards == Opened("RoIter", Unbounded, Unbounded, <<>>)

\* PolyDatabase::rev_iter
rev_iter == Opened("RoRevIter", Unbounded, Unbounded, <<>>)

\* PolyDatabase::rev_iter_mut
rev_iter_mut == Opened("RwRevIter", Unbounded, Unbounded, <<>>)

\* A ranged constructor: both bounds encoded, the start bound first.
Ranged(kind, start_bound, end_bound) ==
    CASE ~start_bound.ok -> start_bound
      [] ~end_bound.ok   -> end_bound
      [] OTHER ->
            Opened(kind, start_bound.val, end_bound.val, <<>>)

\* An end bound taken as exclusive, as of a half-open interval.
half_open(bound) == IF bound.b = "Included" THEN Excluded(bound.key) ELSE bound

\* range that encodes an Included end bound as Excluded.
range_end_excluded(r) ==
    Ranged("RoRange", encode_bound(r.start), encode_bound(half_open(r.end)))

\* range that hands the two bounds over in the wrong order.
range_bounds_swapped(r) ==
    Ranged("RoRange", encode_bound(r.end), encode_bound(r.start))

\* PolyDatabase::range
range(r) == Ranged("RoRange", encode_bound(r.start), encode_bound(r.end))

\* PolyDatabase::range_mut
range_mut(r) == Ranged("RwRange", encode_bound(r.start), encode_bound(r.end))

\* rev_range that hands the two bounds over in the wrong order.
rev_range_bounds_swapped(r) ==
    Ranged("RoRevRange", encode_bound(r.end), encode_bound(r.start))

\* rev_range that encodes an Included end bound as Excluded.
rev_range_end_excluded(r) ==
    Ranged("RoRevRange", encode_bound(r.start), encode_bound(half_open(r.end)))

\* An end bound taken as inclusive.
closed(bound) == IF bound.b = "Excluded" THEN Included(bound.key) ELSE bound

\* rev_range that encodes an Excluded end bound as Included.
rev_range_end_included(r) ==
    Ranged("RoRevRange", encode_bound(r.start), encode_bound(closed(r.end)))

\* PolyDatabase::rev_range
rev_range(r) == Ranged("RoRevRange", encode_bound(r.start), encode_bound(r.end))

\* PolyDatabase::rev_range_mut
rev_range_mut(r) ==
    Ranged("RwRevRange", encode_bound(r.start), encode_bound(r.end))

\* A prefix constructor.
Prefixed(kind, prefix_bytes) ==
    IF ~prefix_bytes.ok
    THEN prefix_bytes
    ELSE Opened(kind, Unbounded, Unbounded, prefix_bytes.val)

\* prefix_iter that makes the reverse prefix iterator.
prefix_iter_backwards(prefix) == Prefixed("RoRevPrefix", bytes_encode(prefix))

\* PolyDatabase::prefix_iter
prefix_iter(prefix) == Prefixed("RoPrefix", bytes_encode(prefix))

\* PolyDatabase::prefix_iter_mut
prefix_iter_mut(prefix) == Prefixed("RwPrefix", bytes_encode(prefix))

\* PolyDatabase::rev_prefix_iter
rev_prefix_iter(prefix) == Prefixed("RoRevPrefix", bytes_encode(prefix))

\* PolyDatabase::rev_prefix_iter_mut
rev_prefix_iter_mut(prefix) == Prefixed("RwRevPrefix", bytes_encode(prefix))

\* The loop of delete_range: while iter.next().is_some(), del_current and
\* count; an error of del_current ends the call.
RECURSIVE delete_range_loop(_, _, _)
delete_range_loop(t, i, count) ==
    LET n == next(t, i)
        d == del_current(t, n.it)
    IN  CASE n.item = None -> [ret |-> Ok(count), t |-> t]
          [] ~d.ret.ok     -> [ret |-> d.ret, t |-> d.t]
          [] OTHER         -> delete_range_loop(d.t, d.it, count + 1)

\* delete_range over the half-open interval: an Included end bound is taken
\* as Excluded.
delete_range_half_open(t, r, kc) ==
    LET i == decoding(range_mut([r EXCEPT !.end = half_open(r.end)]), kc)
    IN  IF ~i.ok THEN [ret |-> i, t |-> t]
        ELSE delete_range_loop(t, i.val, 0)

\* PolyDatabase::delete_range::<KC, R>, over
\* range_mut::<KC, DecodeIgnore, _>.
delete_range(t, r, kc) ==
    LET i == decoding(range_mut(r), kc)
    IN  IF ~i.ok THEN [ret |-> i, t |-> t]
        ELSE delete_range_loop(t, i.val, 0)

-----------------------------------------------------------------------------
(* The state.                                                              *)
(*   table    the table's content                                          *)
(*   res      the call that last returned: its name, its arguments, its    *)
(*            result and the table before it; while an iterator is live,   *)
(*            the constructor that made it and the item of its last next() *)
(*   it       the live iterator                                            *)
(*   yielded  the items the live iterator has yielded                      *)
(*   written  for every key, the value of its most recent put that no      *)
(*            delete, delete_range or clear has removed since              *)
(*   cleared  a clear has returned and no put has since                    *)
(*   edit     the last del_current or put_current on the live iterator     *)
(*            since its last next(): the call, its result, the table       *)
(*            before it and whether the current entry was removed before   *)
(*   other    the table that the handle's dbi names in another environment *)
(*   failure  the code the engine fails with, MDB_SUCCESS while it works    *)
(*   held     the values, entries and iterators the caller holds           *)
(*   cursors  the number of engine cursors open                            *)

FullRange == [start |-> Unbounded, end |-> Unbounded]

NoRes ==
    [op |-> "none", key |-> <<>>, data |-> <<>>, range |-> FullRange,
     ret |-> Ok(<<>>), pre |-> EmptyTable]

Returned(op, key, data, r, ret, pre) ==
    [op |-> op, key |-> key, data |-> data, range |-> r, ret |-> ret,
     pre |-> pre]

\* The key lies in the interval r.
InRange(key, r) ==
    /\ r.start.b = "Included" => LexLeq(r.start.key, key)
    /\ r.start.b = "Excluded" => LexLess(r.start.key, key)
    /\ r.end.b = "Included" => LexLeq(key, r.end.key)
    /\ r.end.b = "Excluded" => LexLess(key, r.end.key)

NoEdit == [op |-> "none", ret |-> Ok(FALSE), pre |-> EmptyTable, gone |-> FALSE]

Edited(op, ret, pre, gone) == [op |-> op, ret |-> ret, pre |-> pre, gone |-> gone]

\* A del_current has removed the entry the last next() yielded.
Gone == edit.gone \/ (edit.op = "del_current" /\ edit.ret = Ok(TRUE))

Idle == it.kind = "none" /\ res.op = "none"

\* The environments: the handle's, and another one.
Envs == {"env", "other env"}

\* The handle: PolyDatabase { env_ident, dbi }.
database == [env_ident |-> "env", dbi |-> "dbi"]

\* What the other environment holds under the handle's dbi.
OtherTable == [k \in {<<0>>} |-> <<1>>]

\* A transaction: the environment it was begun in.
Txns == [env : Envs]

\* The handle's own transaction.
wtxn == [env |-> database.env_ident]

\* A panic of the calling thread, with its message.
Panic(msg) == [ok |-> FALSE, val |-> <<"panic", msg>>]

EnvMismatch ==
    "The database environment doesn't match the transaction's environment"

\* assert_eq_env_db_txn!(self, txn): whether the assertion passes.
assert_eq_env_db_txn(db, txn) == db.env_ident = txn.env

\* What a method gives: its result, the table afterwards and the iterator
\* it made, if it is a constructor.
Queried(ret, t) == [ret |-> ret, t |-> t, it |-> NoIter]

Mutated(r) == [ret |-> r.ret, t |-> r.t, it |-> NoIter]

Constructed(made, t) ==
    [ret |-> IF made.ok THEN Ok(<<>>) ELSE made,
     t   |-> t,
     it  |-> IF made.ok THEN made.val ELSE NoIter]

\* The methods of the handle that take a transaction.
Methods ==
    {"get", "get_lower_than", "get_lower_than_or_equal_to",
     "get_greater_than", "get_greater_than_or_equal_to", "first", "last",
     "len", "is_empty", "iter", "iter_mut", "rev_iter", "rev_iter_mut",
     "range", "range_mut", "rev_range", "rev_range_mut", "prefix_iter",
     "prefix_iter_mut", "rev_prefix_iter", "rev_prefix_iter_mut", "put",
     "put_reserved", "append", "delete", "delete_range", "clear"}

\* The statements of a method after its assertion, on the table t that the
\* engine finds under the handle's dbi in the transaction's environment.
\* put_reserved is called with the size of data and a writer that writes
\* data.
method(op, t, key, data, r) ==
    CASE op = "get" -> Queried(get(t, key), t)
      [] op = "get_lower_than" -> Queried(get_lower_than(t, key), t)
      [] op = "get_lower_than_or_equal_to" ->
             Queried(get_lower_than_or_equal_to(t, key), t)
      [] op = "get_greater_than" -> Queried(get_greater_than(t, key), t)
      [] op = "get_greater_than_or_equal_to" ->
             Queried(get_greater_than_or_equal_to(t, key), t)
      [] op = "first" -> Queried(first(t), t)
      [] op = "last" -> Queried(last(t), t)
      [] op = "len" -> Queried(len(t), t)
      [] op = "is_empty" -> Queried(is_empty(t), t)
      [] op = "iter" -> Constructed(iter, t)
      [] op = "iter_mut" -> Constructed(iter_mut, t)
      [] op = "rev_iter" -> Constructed(rev_iter, t)
      [] op = "rev_iter_mut" -> Constructed(rev_iter_mut, t)
      [] op = "range" -> Constructed(range(r), t)
      [] op = "range_mut" -> Constructed(range_mut(r), t)
      [] op = "rev_range" -> Constructed(rev_range(r), t)
      [] op = "rev_range_mut" -> Constructed(rev_range_mut(r), t)
      [] op = "prefix_iter" -> Constructed(prefix_iter(key), t)
      [] op = "prefix_iter_mut" -> Constructed(prefix_iter_mut(key), t)
      [] op = "rev_prefix_iter" -> Constructed(rev_prefix_iter(key), t)
      [] op = "rev_prefix_iter_mut" ->
             Constructed(rev_prefix_iter_mut(key), t)
      [] op = "put" -> Mutated(put(t, key, data))
      [] op = "put_reserved" ->
             Mutated(put_reserved(t, key, Len(data), data, data))
      [] op = "append" -> Mutated(append(t, key, data))
      [] op = "delete" -> Mutated(delete(t, key))
      [] op = "delete_range" -> Mutated(delete_range(t, r, "ByteSlice"))
      [] op = "clear" -> Mutated(clear(t))

\* A method without its assertion.
call_unchecked(db, txn, t, op, key, data, r) == method(op, t, key, data, r)

\* A method of the handle db called with the transaction txn: the assertion
\* first, then the rest.
call(db, txn, t, op, key, data, r) ==
    IF assert_eq_env_db_txn(db, txn)
    THEN method(op, t, key, data, r)
    ELSE [ret |-> Panic(EnvMismatch), t |-> t, it |-> NoIter]

\* The constructors of the mutable iterators.
MutConstructors ==
    {"iter_mut", "rev_iter_mut", "range_mut", "rev_range_mut",
     "prefix_iter_mut", "rev_prefix_iter_mut"}

\* The constructors of the read-only iterators.
Constructors ==
    {"iter", "rev_iter", "range", "rev_range", "prefix_iter",
     "rev_prefix_iter"}

\* The queries whose result is decoded from the transaction's memory
\* (DC: BytesDecode<'txn>).
Lookups ==
    {"get", "get_lower_than", "get_lower_than_or_equal_to",
     "get_greater_than", "get_greater_than_or_equal_to", "first", "last"}

\* The type of the txn parameter, with every mutable-iterator constructor
\* taking the write transaction by a shared reference.
txn_param_shares_iter_mut(op) ==
    CASE op = "delete_range" -> "&'txn mut RwTxn"
      [] op \in MutConstructors
               \cup {"put", "put_reserved", "append", "delete", "clear"} ->
             "&RwTxn"
      [] OTHER -> "&'txn RoTxn"

\* The type of the txn parameter of each method.
txn_param(op) ==
    CASE op \in MutConstructors \cup {"delete_range"} -> "&'txn mut RwTxn"
      [] op \in {"put", "put_reserved", "append", "delete", "clear"} ->
             "&RwTxn"
      [] OTHER -> "&'txn RoTxn"

\* Whether what a method returned keeps the transaction borrowed: an
\* iterator does (RoIter<'txn, ..>, RwIter<'txn, ..>), and so does the
\* value or entry found by a query.
borrows_txn(op, ret) ==
    /\ ret.ok
    /\ \/ op \in Constructors \cup MutConstructors
       \/ op \in Lookups /\ ret.val # None

\* Something the caller holds that keeps the transaction borrowed: the
\* method that gave it (for an entry, the type of the iterator that yielded
\* it), the reference that method took, and the byte strings of the value or
\* entry, val, or the iterator, it.
Held(op, param, val, i) == [op |-> op, param |-> param, val |-> val, it |-> i]

\* Whether a call may take the transaction by a reference of type param
\* while the caller holds h: an exclusive reference when nothing is held, a
\* shared one when nothing held came out of an exclusive reference.
admits(h, param) ==
    IF param = "&'txn mut RwTxn"
    THEN h = {}
    ELSE \A x \in h : x.param # "&'txn mut RwTxn"

\* Drop of a cursor: mdb_cursor_close on its engine handle.  n is the
\* number of engine cursors open.
close_cursor(n) == n - 1

\* The methods whose cursor is a local of theirs:
\* let mut cursor = RoCursor::new(txn, self.dbi)?;
CursorLocals ==
    {"get_lower_than", "get_lower_than_or_equal_to", "get_greater_than",
     "get_greater_than_or_equal_to", "first", "last", "is_empty"}

\* The call of op reached RoCursor::new / RwCursor::new and the engine
\* opened the cursor.  Every method asserts first.  The neighbor queries,
\* first, last and is_empty open their cursor next, before the key is
\* encoded; the constructors open theirs last, so that they return Ok
\* exactly when it is open; delete_range opens one by range_mut.
opens_cursor(db, txn, op, r, ret) ==
    CASE ~assert_eq_env_db_txn(db, txn) -> FALSE
      [] op \in CursorLocals -> open_cursor.ok
      [] op = "delete_range" -> range_mut(r).ok
      [] op \in Constructors \cup MutConstructors -> ret.ok
      [] OTHER -> FALSE

\* A method that drops its cursor only when it returns Ok.
cursors_after_error_leaks(n, db, txn, op, r, ret) ==
    CASE ~opens_cursor(db, txn, op, r, ret) -> n
      [] op \in Constructors \cup MutConstructors -> n + 1
      [] ret.ok -> close_cursor(n + 1)
      [] OTHER -> n + 1

\* The engine cursors open when a call has returned, n being open before
\* it.  The cursor the call opened is dropped with the call's locals on
\* every return, the iterator of delete_range with it, unless it was moved
\* into the iterator the call returns.
cursors_after(n, db, txn, op, r, ret) ==
    CASE ~opens_cursor(db, txn, op, r, ret) -> n
      [] op \in Constructors \cup MutConstructors -> n + 1
      [] OTHER -> close_cursor(n + 1)

Init ==
    /\ table = EmptyTable
    /\ res = NoRes
    /\ it = NoIter
    /\ yielded = <<>>
    /\ written = EmptyTable
    /\ cleared = FALSE
    /\ edit = NoEdit
    /\ other = OtherTable
    /\ failure = "MDB_SUCCESS"
    /\ held = {}
    /\ cursors = 0

Put(key, data) ==
    /\ Idle
    /\ Cardinality(DOMAIN table) < MaxEntries \/ key \in DOMAIN table
    /\ LET r == put(table, key, data)
       IN  /\ table' = r.t
           /\ res' = Returned("put", key, data, FullRange, r.ret, table)
           /\ written' = IF r.ret.ok
                         THEN [k \in DOMAIN written \cup {key} |->
                                  IF k = key THEN data ELSE written[k]]
                         ELSE written
           /\ cleared' = IF r.ret.ok THEN FALSE ELSE cleared
    /\ UNCHANGED <<it, yielded, edit, other, failure, held, cursors>>

Get(key) ==
    /\ Idle
    /\ res' = Returned("get", key, <<>>, FullRange, get(table, key), table)
    /\ UNCHANGED <<table, it, yielded, written, cleared, edit, other, failure, held,
                   cursors>>

Delete(key) ==
    /\ Idle
    /\ LET r == delete(table, key)
       IN  /\ table' = r.t
           /\ res' = Returned("delete", key, <<>>, FullRange, r.ret, table)
           /\ written' = IF r.ret.ok
                         THEN [k \in DOMAIN written \ {key} |-> written[k]]
                         ELSE written
    /\ UNCHANGED <<it, yielded, cleared, edit, other, failure, held, cursors>>

DeleteRange(r) ==
    /\ Idle
    /\ LET d == delete_range(table, r, "ByteSlice")
       IN  /\ table' = d.t
           /\ res' = Returned("delete_range", <<>>, <<>>, r, d.ret, table)
           /\ written' = IF d.ret.ok
                         THEN [k \in {x \in DOMAIN written : ~InRange(x, r)} |->
                                  written[k]]
                         ELSE written
    /\ cursors' = cursors_after(cursors, database, wtxn, res'.op, res'.range,
                                res'.ret)
    /\ UNCHANGED <<it, yielded, cleared, edit, other, failure, held>>

Clear ==
    /\ Idle
    /\ LET r == clear(table)
       IN  /\ table' = r.t
           /\ res' = Returned("clear", <<>>, <<>>, FullRange, r.ret, table)
           /\ written' = IF r.ret.ok THEN EmptyTable ELSE written
           /\ cleared' = IF r.ret.ok THEN TRUE ELSE cleared
    /\ UNCHANGED <<it, yielded, edit, other, failure, held, cursors>>

\* PolyDatabase::append (Append is the Sequences operator).
AppendLast(key, data) ==
    /\ Idle
    /\ Cardinality(DOMAIN table) < MaxEntries \/ key \in DOMAIN table
    /\ LET r == append(table, key, data)
       IN  /\ table' = r.t
           /\ res' = Returned("append", key, data, FullRange, r.ret, table)
           /\ written' = IF r.ret.ok
                         THEN [k \in DOMAIN written \cup {key} |->
                                  IF k = key THEN data ELSE written[k]]
                         ELSE written
           /\ cleared' = IF r.ret.ok THEN FALSE ELSE cleared
    /\ UNCHANGED <<it, yielded, edit, other, failure, held, cursors>>

\* PolyDatabase::put_reserved.  The history keeps what the key holds after
\* the call, whether the writer filled the region or not.
PutReserved(key, data_size, buf, storage) ==
    /\ Idle
    /\ Cardinality(DOMAIN table) < MaxEntries \/ key \in DOMAIN table
    /\ LET r == put_reserved(table, key, data_size, buf, storage)
       IN  /\ table' = r.t
           /\ res' = [op |-> "put_reserved", key |-> key, data |-> buf,
                      range |-> FullRange, ret |-> r.ret, pre |-> table,
                      data_size |-> data_size,
                      region |-> reserve_size_val(data_size, storage)]
           /\ written' = IF key \in DOMAIN r.t
                         THEN [k \in DOMAIN written \cup {key} |->
                                  IF k = key THEN r.t[key] ELSE written[k]]
                         ELSE written
           /\ cleared' = IF key \in DOMAIN r.t THEN FALSE ELSE cleared
    /\ UNCHANGED <<it, yielded, edit, other, failure, held, cursors>>

GetLowerThan(key) ==
    /\ Idle
    /\ res' = Returned("get_lower_than", key, <<>>, FullRange,
                       get_lower_than(table, key), table)
    /\ cursors' = cursors_after(cursors, database, wtxn, res'.op, res'.range,
                                res'.ret)
    /\ UNCHANGED <<table, it, yielded, written, cleared, edit, other, failure, held>>

GetLowerThanOrEqualTo(key) ==
    /\ Idle
    /\ res' = Returned("get_lower_than_or_equal_to", key, <<>>, FullRange,
                       get_lower_than_or_equal_to(table, key), table)
    /\ cursors' = cursors_after(cursors, database, wtxn, res'.op, res'.range,
                                res'.ret)
    /\ UNCHANGED <<table, it, yielded, written, cleared, edit, other, failure, held>>

GetGreaterThan(key) ==
    /\ Idle
    /\ res' = Returned("get_greater_than", key, <<>>, FullRange,
                       get_greater_than(table, key), table)
    /\ cursors' = cursors_after(cursors, database, wtxn, res'.op, res'.range,
                                res'.ret)
    /\ UNCHANGED <<table, it, yielded, written, cleared, edit, other, failure, held>>

GetGreaterThanOrEqualTo(key) ==
    /\ Idle
    /\ res' = Returned("get_greater_than_or_equal_to", key, <<>>, FullRange,
                       get_greater_than_or_equal_to(table, key), table)
    /\ cursors' = cursors_after(cursors, database, wtxn, res'.op, res'.range,
                                res'.ret)
    /\ UNCHANGED <<table, it, yielded, written, cleared, edit, other, failure, held>>

First ==
    /\ Idle
    /\ res' = Returned("first", <<>>, <<>>, FullRange, first(table), table)
    /\ cursors' = cursors_after(cursors, database, wtxn, res'.op, res'.range,
                                res'.ret)
    /\ UNCHANGED <<table, it, yielded, written, cleared, edit, other, failure, held>>

Last ==
    /\ Idle
    /\ res' = Returned("last", <<>>, <<>>, FullRange, last(table), table)
    /\ cursors' = cursors_after(cursors, database, wtxn, res'.op, res'.range,
                                res'.ret)
    /\ UNCHANGED <<table, it, yielded, written, cleared, edit, other, failure, held>>

GetLen ==
    /\ Idle
    /\ res' = Returned("len", <<>>, <<>>, FullRange, len(table), table)
    /\ UNCHANGED <<table, it, yielded, written, cleared, edit, other, failure, held,
                   cursors>>

IsEmpty ==
    /\ Idle
    /\ res' = Returned("is_empty", <<>>, <<>>, FullRange, is_empty(table), table)
    /\ cursors' = cursors_after(cursors, database, wtxn, res'.op, res'.range,
                                res'.ret)
    /\ UNCHANGED <<table, it, yielded, written, cleared, edit, other, failure, held>>

\* The caller takes the result of a call.
Return ==
    /\ it.kind = "none"
    /\ res.op # "none"
    /\ res' = NoRes
    /\ UNCHANGED <<table, it, yielded, written, cleared, edit, other, failure, held,
                   cursors>>

\* The constructors: the iterator made is live, or the call failed.
Iter ==
    /\ Idle
    /\ LET made == iter
       IN  /\ it' = IF made.ok THEN made.val ELSE it
           /\ res' = Returned("iter", <<>>, <<>>, FullRange,
                              IF made.ok THEN Ok(<<>>) ELSE made, table)
    /\ cursors' = cursors_after(cursors, database, wtxn, res'.op, res'.range,
                                res'.ret)
    /\ UNCHANGED <<table, yielded, written, cleared, edit, other, failure, held>>

RevIter ==
    /\ Idle
    /\ LET made == rev_iter
       IN  /\ it' = IF made.ok THEN made.val ELSE it
           /\ res' = Returned("rev_iter", <<>>, <<>>, FullRange,
                              IF made.ok THEN Ok(<<>>) ELSE made, table)
    /\ cursors' = cursors_after(cursors, database, wtxn, res'.op, res'.range,
                                res'.ret)
    /\ UNCHANGED <<table, yielded, written, cleared, edit, other, failure, held>>

Range(r) ==
    /\ Idle
    /\ LET made == range(r)
       IN  /\ it' = IF made.ok THEN made.val ELSE it
           /\ res' = Returned("range", <<>>, <<>>, r,
                              IF made.ok THEN Ok(<<>>) ELSE made, table)
    /\ cursors' = cursors_after(cursors, database, wtxn, res'.op, res'.range,
                                res'.ret)
    /\ UNCHANGED <<table, yielded, written, cleared, edit, other, failure, held>>

RevRange(r) ==
    /\ Idle
    /\ LET made == rev_range(r)
       IN  /\ it' = IF made.ok THEN made.val ELSE it
           /\ res' = Returned("rev_range", <<>>, <<>>, r,
                              IF made.ok THEN Ok(<<>>) ELSE made, table)
    /\ cursors' = cursors_after(cursors, database, wtxn, res'.op, res'.range,
                                res'.ret)
    /\ UNCHANGED <<table, yielded, written, cleared, edit, other, failure, held>>

PrefixIter(prefix) ==
    /\ Idle
    /\ LET made == prefix_iter(prefix)
       IN  /\ it' = IF made.ok THEN made.val ELSE it
           /\ res' = Returned("prefix_iter", prefix, <<>>, FullRange,
                              IF made.ok THEN Ok(<<>>) ELSE made, table)
    /\ cursors' = cursors_after(cursors, database, wtxn, res'.op, res'.range,
                                res'.ret)
    /\ UNCHANGED <<table, yielded, written, cleared, edit, other, failure, held>>

RevPrefixIter(prefix) ==
    /\ Idle
    /\ LET made == rev_prefix_iter(prefix)
       IN  /\ it' = IF made.ok THEN made.val ELSE it
           /\ res' = Returned("rev_prefix_iter", prefix, <<>>, FullRange,
                              IF made.ok THEN Ok(<<>>) ELSE made, table)
    /\ cursors' = cursors_after(cursors, database, wtxn, res'.op, res'.range,
                                res'.ret)
    /\ UNCHANGED <<table, yielded, written, cleared, edit, other, failure, held>>

\* Iterator::next on the live iterator.
\* The constructors of the mutable iterators.
IterMut ==
    /\ Idle
    /\ LET made == iter_mut
       IN  /\ it' = IF made.ok THEN made.val ELSE it
           /\ res' = Returned("iter_mut", <<>>, <<>>, FullRange,
                              IF made.ok THEN Ok(<<>>) ELSE made, table)
    /\ cursors' = cursors_after(cursors, database, wtxn, res'.op, res'.range,
                                res'.ret)
    /\ UNCHANGED <<table, yielded, written, cleared, edit, other, failure, held>>

RangeMut(r) ==
    /\ Idle
    /\ LET made == range_mut(r)
       IN  /\ it' = IF made.ok THEN made.val ELSE it
           /\ res' = Returned("range_mut", <<>>, <<>>, r,
                              IF made.ok THEN Ok(<<>>) ELSE made, table)
    /\ cursors' = cursors_after(cursors, database, wtxn, res'.op, res'.range,
                                res'.ret)
    /\ UNCHANGED <<table, yielded, written, cleared, edit, other, failure, held>>

PrefixIterMut(prefix) ==
    /\ Idle
    /\ LET made == prefix_iter_mut(prefix)
       IN  /\ it' = IF made.ok THEN made.val ELSE it
           /\ res' = Returned("prefix_iter_mut", prefix, <<>>, FullRange,
                              IF made.ok THEN Ok(<<>>) ELSE made, table)
    /\ cursors' = cursors_after(cursors, database, wtxn, res'.op, res'.range,
                                res'.ret)
    /\ UNCHANGED <<table, yielded, written, cleared, edit, other, failure, held>>

RevIterMut ==
    /\ Idle
    /\ LET made == rev_iter_mut
       IN  /\ it' = IF made.ok THEN made.val ELSE it
           /\ res' = Returned("rev_iter_mut", <<>>, <<>>, FullRange,
                              IF made.ok THEN Ok(<<>>) ELSE made, table)
    /\ cursors' = cursors_after(cursors, database, wtxn, res'.op, res'.range,
                                res'.ret)
    /\ UNCHANGED <<table, yielded, written, cleared, edit, other, failure, held>>

RevRangeMut(r) ==
    /\ Idle
    /\ LET made == rev_range_mut(r)
       IN  /\ it' = IF made.ok THEN made.val ELSE it
           /\ res' = Returned("rev_range_mut", <<>>, <<>>, r,
                              IF made.ok THEN Ok(<<>>) ELSE made, table)
    /\ cursors' = cursors_after(cursors, database, wtxn, res'.op, res'.range,
                                res'.ret)
    /\ UNCHANGED <<table, yielded, written, cleared, edit, other, failure, held>>

RevPrefixIterMut(prefix) ==
    /\ Idle
    /\ LET made == rev_prefix_iter_mut(prefix)
       IN  /\ it' = IF made.ok THEN made.val ELSE it
           /\ res' = Returned("rev_prefix_iter_mut", prefix, <<>>, FullRange,
                              IF made.ok THEN Ok(<<>>) ELSE made, table)
    /\ cursors' = cursors_after(cursors, database, wtxn, res'.op, res'.range,
                                res'.ret)
    /\ UNCHANGED <<table, yielded, written, cleared, edit, other, failure, held>>

IterNext ==
    /\ it.kind # "none"
    /\ LET n == next(table, it)
       IN  /\ it' = n.it
           /\ yielded' = IF n.item = None THEN yielded ELSE yielded \o n.item
           /\ res' = [res EXCEPT !.ret = n.item]
    /\ edit' = NoEdit
    /\ UNCHANGED <<table, written, cleared, other, failure, held, cursors>>

\* The mutable iterator types.
RwKinds == {"RwIter", "RwRevIter", "RwRange", "RwRevRange", "RwPrefix",
            "RwRevPrefix"}

\* The key of the entry the last next() yielded.
LastYieldedKey == yielded[Len(yielded)].val[1]

\* del_current on the live mutable iterator, after a next() that yielded an
\* entry.
DelCurrent ==
    /\ it.kind \in RwKinds
    /\ it.state = "positioned"
    /\ LET d == del_current(table, it)
       IN  /\ table' = d.t
           /\ it' = d.it
           /\ edit' = Edited("del_current", d.ret, table, Gone)
           /\ written' = IF d.ret = Ok(TRUE)
                         THEN [k \in DOMAIN written \ {LastYieldedKey} |->
                                  written[k]]
                         ELSE written
    /\ UNCHANGED <<res, yielded, cleared, other, failure, held, cursors>>

\* put_current on the live mutable iterator, after a next() that yielded an
\* entry, with the key of that entry.
PutCurrent(data) ==
    /\ it.kind \in RwKinds
    /\ it.state = "positioned"
    /\ LET p == put_current(table, it, LastYieldedKey, data)
       IN  /\ table' = p.t
           /\ it' = p.it
           /\ edit' = Edited("put_current", p.ret, table, Gone)
           /\ written' = IF p.ret = Ok(TRUE)
                         THEN [written EXCEPT ![LastYieldedKey] = data]
                         ELSE written
    /\ UNCHANGED <<res, yielded, cleared, other, failure, held, cursors>>

\* del_current on the live mutable iterator after a next() that returned
\* None: the cursor stands where that next() left it.
DelCurrentExhausted ==
    /\ it.kind \in RwKinds
    /\ it.state = "exhausted"
    /\ LET d == del_current(table, it)
       IN  /\ table' = d.t
           /\ it' = d.it
           /\ edit' = Edited("del_current", d.ret, table, Gone)
           /\ written' = [k \in DOMAIN d.t |-> written[k]]
    /\ UNCHANGED <<res, yielded, cleared, other, failure, held, cursors>>

\* The iterator is dropped, and its cursor closed.
IterDrop ==
    /\ it.kind # "none"
    /\ it' = NoIter
    /\ yielded' = <<>>
    /\ res' = NoRes
    /\ edit' = NoEdit
    /\ cursors' = close_cursor(cursors)
    /\ UNCHANGED <<table, written, cleared, other, failure, held>>

\* The typed keys the callers bound an interval with: keys with a key of
\* Keys below them, between them and above them.
BoundKeys == {<<0, 255>>, <<1>>, <<255>>}

\* The typed intervals the callers use.
Ranges == [start : Bounds(BoundKeys), end : Bounds(BoundKeys)]

Next ==
    \/ \E key \in Keys, data \in Vals : Put(key, data)
    \/ \E key \in Keys : Get(key)
    \/ \E key \in Keys : Delete(key)
    \/ \E key \in Keys, data \in Vals : AppendLast(key, data)
    \/ \E key \in Keys : GetLowerThan(key)
    \/ \E key \in Keys : GetLowerThanOrEqualTo(key)
    \/ \E key \in Keys : GetGreaterThan(key)
    \/ \E key \in Keys : GetGreaterThanOrEqualTo(key)
    \/ First
    \/ Last
    \/ \E r \in Ranges : DeleteRange(r)
    \/ Clear
    \/ GetLen
    \/ IsEmpty
    \/ Return
    \/ Iter
    \/ RevIter
    \/ \E r \in Ranges : Range(r)
    \/ \E r \in Ranges : RevRange(r)
    \/ \E prefix \in Prefixes : PrefixIter(prefix)
    \/ \E prefix \in Prefixes : RevPrefixIter(prefix)
    \/ IterNext
    \/ IterDrop

\* A healthy engine and codecs that encode every key and value the callers
\* pass.
Spec == Init /\ [][Next]_vars

\* The greatest size a caller reserves.
MaxSize == 2

\* The buffers the writers write: one more byte than the greatest size at
\* most.
Bufs(n) == {[i \in 1..m |-> 1] : m \in 0..n}

\* What the storage may hold where a region is reserved.
Storages(n) == [1..n -> {0, 1}]

\* The keys of the callers of put_reserved.
ReservedKeys == {<<0>>, <<1>>}

NextReserved ==
    \/ \E key \in ReservedKeys, data_size \in 0..MaxSize,
          buf \in Bufs(MaxSize + 1), storage \in Storages(MaxSize) :
          PutReserved(key, data_size, buf, storage)
    \/ \E key \in ReservedKeys, data \in Vals : Put(key, data)
    \/ \E key \in ReservedKeys : Get(key)
    \/ \E key \in ReservedKeys : Delete(key)
    \/ Return

\* put_reserved among puts, gets and deletes of two keys.
SpecReserved == Init /\ [][NextReserved]_vars

\* The keys, intervals and prefixes of the callers of the mutable iterators.
MutKeys == {<<0>>, <<0, 255>>, <<1>>, <<255>>}

MutRanges == [start : Bounds({<<0, 255>>}), end : Bounds({<<1>>})]

MutPrefixes == {<<>>, <<0>>, <<255>>}

NextMut ==
    \/ \E key \in MutKeys, data \in Vals : Put(key, data)
    \/ \E key \in MutKeys, data_size \in 0..1, buf \in Bufs(1),
          storage \in Storages(1) :
          PutReserved(key, data_size, buf, storage)
    \/ \E key \in MutKeys, data \in Vals : AppendLast(key, data)
    \/ \E key \in MutKeys : Delete(key)
    \/ \E r \in MutRanges : DeleteRange(r)
    \/ Clear
    \/ GetLen
    \/ Return
    \/ IterMut
    \/ \E r \in MutRanges : RangeMut(r)
    \/ \E prefix \in MutPrefixes : PrefixIterMut(prefix)
    \/ RevIterMut
    \/ \E r \in MutRanges : RevRangeMut(r)
    \/ \E prefix \in MutPrefixes : RevPrefixIterMut(prefix)
    \/ IterNext
    \/ DelCurrent
    \/ \E data \in Vals : PutCurrent(data)
    \/ IterDrop

\* Every mutation of the table, the mutable iterators' among them, and len.
SpecMut == Init /\ [][NextMut]_vars

NextFrame ==
    \/ \E key \in MutKeys, data \in Vals : Put(key, data)
    \/ \E r \in MutRanges : DeleteRange(r)
    \/ Return
    \/ \E r \in MutRanges : RangeMut(r)
    \/ \E r \in MutRanges : RevRangeMut(r)
    \/ IterNext
    \/ DelCurrent
    \/ \E data \in Vals : PutCurrent(data)
    \/ DelCurrentExhausted
    \/ IterDrop

\* delete_range and the mutable ranged iterators, whose del_current is
\* called after any next().
SpecFrame == Init /\ [][NextFrame]_vars

\* A method called with a transaction of either environment.  The engine
\* works on the table of the transaction's environment.
Call(txn, op, key, data, r) ==
    /\ Idle
    /\ LET t == IF txn.env = database.env_ident THEN table ELSE other
           c == call(database, txn, t, op, key, data, r)
       IN  /\ table' = IF txn.env = database.env_ident THEN c.t ELSE table
           /\ other' = IF txn.env = database.env_ident THEN other ELSE c.t
           /\ it' = c.it
           /\ res' = [op |-> op, key |-> key, data |-> data, range |-> r,
                      ret |-> c.ret, pre |-> table, txn |-> txn,
                      failure |-> failure]
    /\ cursors' = cursors_after(cursors, database, txn, res'.op, res'.range,
                                res'.ret)
    /\ UNCHANGED <<yielded, written, cleared, edit, failure, held>>

\* The codes the engine fails with: the transaction has become invalid, the
\* environment has met a fatal error.
Failures == {"MDB_BAD_TXN", "MDB_PANIC"}

\* The engine starts failing; from then on every call of it ends with rc.
Fail(rc) ==
    /\ ~Failing
    /\ failure' = rc
    /\ UNCHANGED <<table, res, it, yielded, written, cleared, edit, other,
                   held, cursors>>

\* The keys and intervals of the calls made with either transaction.
EnvKeys == {<<0>>, <<1>>}

EnvRanges == {FullRange, [start |-> Included(<<1>>), end |-> Unbounded]}

NextEnv ==
    \/ \E txn \in Txns, op \in Methods, key \in EnvKeys, data \in Vals,
          r \in EnvRanges :
          Call(txn, op, key, data, r)
    \/ \E rc \in Failures : Fail(rc)
    \/ IterNext
    \/ IterDrop
    \/ Return

\* Every method, called with a transaction of the handle's environment or of
\* another one, on an engine that may start failing.
SpecEnv == Init /\ [][NextEnv]_vars

\* The greatest number of values, entries and iterators the caller holds at
\* a time.
MaxHeld == 2

\* A method called while the caller holds values, entries or iterators of
\* earlier calls: the call is admitted by the references held, and what it
\* returns is held in turn when it keeps the transaction borrowed.  The
\* result records the origins of what was held during the call.  held is
\* a set: it does not tell how many iterators of one state the caller has,
\* and the engine cursors of the iterators held are not counted.
BorrowCall(op, key, data, r) ==
    /\ admits(held, txn_param(op))
    /\ Cardinality(held) < MaxHeld
    /\ LET c == call(database, wtxn, table, op, key, data, r)
           val == CASE c.it # NoIter -> <<>>
                    [] op = "get"    -> c.ret.val
                    [] OTHER         -> c.ret.val[1]
       IN  /\ table' = c.t
           /\ held' = IF borrows_txn(op, c.ret)
                      THEN held \cup {Held(op, txn_param(op), val, c.it)}
                      ELSE held
           /\ res' = [op |-> op, key |-> key, ret |-> c.ret,
                      held |-> {x.op : x \in held}]
    /\ UNCHANGED <<it, yielded, written, cleared, edit, other, failure,
                   cursors>>

\* The caller steps an iterator it holds and keeps the entry yielded, which
\* lives as long as the transaction's borrow ('txn), when it has room.
HeldNext(h) ==
    /\ h.op \in Constructors \cup MutConstructors
    /\ LET n == next(table, h.it)
           stepped == (held \ {h}) \cup {[h EXCEPT !.it = n.it]}
       IN  held' = IF /\ n.item # None
                      /\ n.item[1].ok
                      /\ Cardinality(stepped) < MaxHeld
                   THEN stepped \cup
                        {Held(h.it.kind, h.param, n.item[1].val, NoIter)}
                   ELSE stepped
    /\ UNCHANGED <<table, res, it, yielded, written, cleared, edit, other,
                   failure, cursors>>

\* The caller lets go of something it holds.
Release(h) ==
    /\ held' = held \ {h}
    /\ UNCHANGED <<table, res, it, yielded, written, cleared, edit, other,
                   failure, cursors>>

\* The keys of the calls made while results are held.
BorrowKeys == {<<0>>}

NextBorrow ==
    \/ \E op \in Methods, key \in BorrowKeys :
          BorrowCall(op, key, <<1>>, FullRange)
    \/ \E h \in held : HeldNext(h)
    \/ \E h \in held : Release(h)

\* Every method, called while results of earlier calls are still held.
SpecBorrow == Init /\ [][NextBorrow]_vars

\* Database::new(env_ident, dbi): the uniform handle, a polymorphic handle
\* with its codecs fixed.
Database_new(env_ident, dbi) ==
    [dyndb |-> [env_ident |-> env_ident, dbi |-> dbi]]

\* as_uniform that makes a handle of another dbi.
as_uniform_other_dbi(db) == Database_new(db.env_ident, "other dbi")

\* PolyDatabase::as_uniform
as_uniform(db) == Database_new(db.env_ident, db.dbi)

\* The two handles: the polymorphic one and the uniform one made of it.
Handles == {"PolyDatabase", "Database"}

\* The polymorphic handle whose methods a call through h runs: the handle
\* itself, or the one inside the uniform handle.
dyndb(h) == IF h = "Database" THEN as_uniform(database).dyndb ELSE database

\* Whether the handle db and the transaction txn name the table of the
\* polymorphic handle in the engine; any other pair names another table.
names_table(db, txn) ==
    txn.env = database.env_ident /\ db.dbi = database.dbi

\* The reads and the writes made through the two handles.
Reads == Lookups \cup {"len", "is_empty"}

Writes == {"put", "put_reserved", "append", "delete", "delete_range", "clear"}

\* A read or a write through one of the two handles, in the write
\* transaction, with the same codecs.
HandleCall(h, op, key, data, r) ==
    /\ Idle
    /\ LET mine == names_table(dyndb(h), wtxn)
           c == call(dyndb(h), wtxn, IF mine THEN table ELSE other,
                     op, key, data, r)
       IN  /\ table' = IF mine THEN c.t ELSE table
           /\ other' = IF mine THEN other ELSE c.t
           /\ res' = [op |-> op, key |-> key, data |-> data, range |-> r,
                      ret |-> c.ret, pre |-> table, handle |-> h]
    /\ cursors' = cursors_after(cursors, dyndb(h), wtxn, res'.op, res'.range,
                                res'.ret)
    /\ UNCHANGED <<it, yielded, written, cleared, edit, failure, held>>

NextUniform ==
    \/ \E h \in Handles, op \in Reads \cup Writes, key \in EnvKeys,
          data \in Vals, r \in EnvRanges :
          HandleCall(h, op, key, data, r)
    \/ Return

\* Reads and writes through the polymorphic handle and the uniform handle
\* made of it.
SpecUniform == Init /\ [][NextUniform]_vars

\* delete_range called with the key codec kc, on an engine that may be
\* failing.
DeleteRangeAs(kc, r) ==
    /\ Idle
    /\ LET d == delete_range(table, r, kc)
       IN  /\ table' = d.t
           /\ res' = [op |-> "delete_range", key |-> <<>>, data |-> <<>>,
                      range |-> r, ret |-> d.ret, pre |-> table, kc |-> kc,
                      failure |-> failure]
           /\ written' = [k \in DOMAIN d.t |-> written[k]]
    /\ cursors' = cursors_after(cursors, database, wtxn, res'.op, res'.range,
                                res'.ret)
    /\ UNCHANGED <<it, yielded, cleared, edit, other, failure, held>>

\* range_mut called with the key codec kc.
RangeMutAs(kc, r) ==
    /\ Idle
    /\ LET made == decoding(range_mut(r), kc)
       IN  /\ it' = IF made.ok THEN made.val ELSE NoIter
           /\ res' = [op |-> "range_mut", key |-> <<>>, data |-> <<>>,
                      range |-> r, ret |-> IF made.ok THEN Ok(<<>>) ELSE made,
                      pre |-> table, kc |-> kc, failure |-> failure]
    /\ yielded' = <<>>
    /\ cursors' = cursors_after(cursors, database, wtxn, res'.op, res'.range,
                                res'.ret)
    /\ UNCHANGED <<table, written, cleared, edit, other, failure, held>>

\* The intervals of these calls; their bounds are items of either codec.
CodecRanges == [start : Bounds({<<0>>}), end : {Unbounded, Included(<<1>>)}]

NextCodec ==
    \/ \E key \in MutKeys, data \in Vals : Put(key, data)
    \/ \E kc \in Codecs, r \in CodecRanges : DeleteRangeAs(kc, r)
    \/ \E kc \in Codecs, r \in CodecRanges : RangeMutAs(kc, r)
    \/ \E rc \in Failures : Fail(rc)
    \/ IterNext
    \/ IterDrop
    \/ Return

\* The traversals with a key codec that does not decode every key of the
\* table, on an engine that may start failing.
SpecCodec == Init /\ [][NextCodec]_vars

\* delete_range statement by statement.  Its first statements: the
\* assertion, which the handle's own transaction passes, and
\* range_mut::<KC, DecodeIgnore, _>(txn, range)?, which makes the iterator
\* of the loop or ends the call.  dels counts the calls of del_current.
DeleteRangeBegin(kc, r) ==
    /\ Idle
    /\ LET made == decoding(range_mut(r), kc)
       IN  /\ it' = IF made.ok THEN made.val ELSE NoIter
           /\ res' = [op |-> "delete_range", key |-> <<>>, data |-> <<>>,
                      range |-> r, ret |-> IF made.ok THEN Ok(0) ELSE made,
                      pre |-> table, kc |-> kc, failure |-> failure,
                      dels |-> 0]
           /\ cursors' = IF made.ok THEN cursors + 1 ELSE cursors
    /\ UNCHANGED <<table, yielded, written, cleared, edit, other, failure,
                   held>>

\* One turn of while iter.next().is_some() { iter.del_current()?; count += 1 }
\* The call returns Ok(count) when next() gives None and the error of
\* del_current when there is one; the iterator is dropped as it returns.
DeleteRangeStep ==
    /\ res.op = "delete_range"
    /\ it.kind # "none"
    /\ res.dels <= MaxEntries
    /\ LET n == next(table, it)
           d == del_current(table, n.it)
       IN  CASE n.item = None ->
                    /\ table' = table
                    /\ it' = NoIter
                    /\ res' = res
                    /\ cursors' = close_cursor(cursors)
             [] ~d.ret.ok ->
                    /\ table' = d.t
                    /\ it' = NoIter
                    /\ res' = [res EXCEPT !.ret = d.ret, !.dels = @ + 1]
                    /\ cursors' = close_cursor(cursors)
             [] OTHER ->
                    /\ table' = d.t
                    /\ it' = d.it
                    /\ res' = [res EXCEPT !.ret = Ok(@.val + 1),
                                          !.dels = @ + 1]
                    /\ cursors' = cursors
    /\ written' = [k \in DOMAIN table' |-> written[k]]
    /\ UNCHANGED <<yielded, cleared, edit, other, failure, held>>

NextLoop ==
    \/ \E key \in MutKeys, data \in Vals : Put(key, data)
    \/ \E kc \in Codecs, r \in MutRanges : DeleteRangeBegin(kc, r)
    \/ DeleteRangeStep
    \/ \E rc \in Failures : Fail(rc)
    \/ Return

\* delete_range turn by turn, on an engine that may start failing between
\* two engine calls.  The thread that called delete_range goes on running:
\* a turn of the loop that can be taken is taken.
SpecLoop == Init /\ [][NextLoop]_vars /\ WF_vars(DeleteRangeStep)

\* The decode of the entry a query found:
\* match (KC::bytes_decode(key), DC::bytes_decode(data)), the values being
\* byte strings, which always decode.
decode_entry(kc, ret) ==
    IF ret.ok /\ ret.val # None /\ ~bytes_decode(kc, ret.val[1][1]).ok
    THEN bytes_decode(kc, ret.val[1][1])
    ELSE ret

\* The queries that return an entry.
EntryQueries == CursorLocals \ {"is_empty"}

\* A method called with the key codec kc and the handle's own transaction.
\* The writer of put_reserved writes bytes.
CallAs(kc, op, key, data, r) ==
    /\ Idle
    /\ op = "put_reserved" => bytes_encode(data).ok
    /\ LET c == IF op = "delete_range"
                THEN Mutated(delete_range(table, r, kc))
                ELSE call(database, wtxn, table, op, key, data, r)
       IN  /\ table' = c.t
           /\ it' = IF c.it = NoIter THEN NoIter ELSE [c.it EXCEPT !.kc = kc]
           /\ res' = [op |-> op, key |-> key, data |-> data, range |-> r,
                      ret |-> IF op \in EntryQueries
                              THEN decode_entry(kc, c.ret)
                              ELSE c.ret,
                      pre |-> table, kc |-> kc, failure |-> failure]
    /\ yielded' = <<>>
    /\ cursors' = cursors_after(cursors, database, wtxn, res'.op, res'.range,
                                res'.ret)
    /\ UNCHANGED <<written, cleared, edit, other, failure, held>>

\* The typed keys, values and intervals of these calls: 256 is no byte, so
\* that the items holding it have no encoding.
TypedKeys == {<<0>>, <<255>>, <<256>>}

TypedVals == {<<1>>, <<256>>}

TypedRanges ==
    {FullRange,
     [start |-> Included(<<0>>), end |-> Included(<<256>>)],
     [start |-> Excluded(<<256>>), end |-> Unbounded]}

NextTyped ==
    \/ \E kc \in Codecs, op \in Methods, key \in TypedKeys,
          data \in TypedVals, r \in TypedRanges :
          CallAs(kc, op, key, data, r)
    \/ \E rc \in Failures : Fail(rc)
    \/ IterNext
    \/ IterDrop
    \/ Return

\* Every method, called with keys, values and bounds that may have no
\* encoding and with a key codec that may not decode every key, on an
\* engine that may start failing.
SpecTyped == Init /\ [][NextTyped]_vars

-----------------------------------------------------------------------------
(* What the claims speak of *)

Reverse(seq) == [n \in 1..Len(seq) |-> seq[Len(seq) + 1 - n]]

\* The items an iterator yields when next() is called until it gives None.
RECURSIVE Drain(_, _)
Drain(t, i) ==
    LET n == next(t, i)
    IN  IF n.item = None THEN <<>> ELSE n.item \o Drain(t, n.it)

\* The live iterator has given None.
Exhausted == it.kind # "none" /\ it.state = "exhausted"

\* Every item yielded is an entry, and their keys increase strictly.
YieldedInOrder ==
    /\ \A n \in 1..Len(yielded) : yielded[n].ok
    /\ \A m, n \in 1..Len(yielded) :
          m < n => LexLess(yielded[m].val[1], yielded[n].val[1])

\* The set of the entries yielded.
YieldedEntries == {yielded[n].val : n \in 1..Len(yielded)}

\* The entries of the table whose key is in S.
EntriesOf(S) == {Entry(table, k) : k \in DOMAIN table \cap S}

\* The first Len(prefix) bytes of the key are the prefix.
HasPrefix(key, prefix) ==
    /\ Len(key) >= Len(prefix)
    /\ SubSeq(key, 1, Len(prefix)) = prefix

\* The keys that were in the interval of the last call before it.
KeysInRangeBefore == {k \in DOMAIN res.pre : InRange(k, res.range)}

-----------------------------------------------------------------------------
(* The claims *)

\* C1: after any sequence of put, delete, delete_range and clear, get(k)
\* returns the value of the most recent put(k, v) that has not since been
\* removed; a put on a key already present succeeds and the key then holds
\* the new value.
C1_GetReturnsLastPut ==
    /\ (res.op = "get" /\ res.key \in DOMAIN written) =>
          (res.ret.ok /\ res.ret.val = Some(written[res.key]))
    /\ res.op = "put" =>
          /\ res.ret.ok
          /\ table[res.key] = res.data
          /\ get(table, res.key) = Ok(Some(res.data))

C1_Witness ==
    /\ res.op = "put"
    /\ res.key \in DOMAIN res.pre
    /\ res.pre[res.key] # res.data
    /\ get(table, res.key) = Ok(Some(res.data))

\* C2: get(k) returns None, and no error, for every key that was never
\* written or whose last write was followed by a removal.
C2_GetAbsentIsNone ==
    (res.op = "get" /\ res.key \notin DOMAIN written) =>
        (res.ret.ok /\ res.ret.val = None)

C2_Witness ==
    /\ res.op = "get"
    /\ res.key \notin DOMAIN written
    /\ DOMAIN table # {}
    /\ res.ret.ok /\ res.ret.val = None

\* C3: iter() driven to exhaustion yields every entry of the table exactly
\* once, in strictly increasing byte order of the keys, and then None.
C3_IterYieldsAllInOrder ==
    (res.op = "iter" /\ Exhausted) =>
        /\ YieldedInOrder
        /\ YieldedEntries = EntriesOf(Keys)
        /\ res.ret = None

C3_Witness == res.op = "iter" /\ Exhausted /\ Len(yielded) = 3

\* C4: the sequence rev_iter() yields is the reverse of the sequence iter()
\* yields on the same table.
C4_RevIterIsIterReversed ==
    (res.op = "rev_iter" /\ Exhausted) =>
        yielded = Reverse(Drain(table, iter.val))

C4_Witness == res.op = "rev_iter" /\ Exhausted /\ Len(yielded) = 3

\* C5: range(interval) yields exactly the entries whose key lies in the
\* interval under the inclusivity of its bounds, in increasing key order,
\* each once.
C5_RangeYieldsInterval ==
    (res.op = "range" /\ Exhausted) =>
        /\ YieldedInOrder
        /\ YieldedEntries = EntriesOf({k \in Keys : InRange(k, res.range)})

\* An Excluded start bound and an Included end bound that are both keys of
\* the table, with an entry between them.
C5_Witness ==
    /\ res.op = "range" /\ Exhausted
    /\ res.range.start.b = "Excluded" /\ res.range.start.key \in DOMAIN table
    /\ res.range.end.b = "Included" /\ res.range.end.key \in DOMAIN table
    /\ Len(yielded) = 2

\* C6: rev_range(interval) yields the sequence range(interval) yields,
\* reversed.
C6_RevRangeIsRangeReversed ==
    (res.op = "rev_range" /\ Exhausted) =>
        yielded = Reverse(Drain(table, range(res.range).val))

\* The upper bound is greater than every key of the table: the seek for it
\* finds nothing.
C6_Witness ==
    /\ res.op = "rev_range" /\ Exhausted
    /\ res.range.end.b # "Unbounded"
    /\ \A k \in DOMAIN table : LexLess(k, res.range.end.key)
    /\ Len(yielded) >= 2

\* C7: prefix_iter(p) yields exactly the entries whose key has p as its
\* first len(p) bytes, in increasing key order; a key shorter than p is
\* never yielded.
C7_PrefixIterYieldsPrefixed ==
    (res.op = "prefix_iter" /\ Exhausted) =>
        /\ YieldedInOrder
        /\ YieldedEntries = EntriesOf({k \in Keys : HasPrefix(k, res.key)})

\* The table holds a key shorter than the prefix, and a key beyond it.
C7_Witness ==
    /\ res.op = "prefix_iter" /\ Exhausted
    /\ res.key = <<0, 255>>
    /\ {<<0>>, <<0, 255>>, <<1>>} \subseteq DOMAIN table
    /\ Len(yielded) = 1

C9_DeleteRangeCountsAndRemoves ==
    res.op = "delete_range" =>
        /\ res.ret.ok
        /\ res.ret.val = Cardinality(KeysInRangeBefore)
        /\ \A k \in KeysInRangeBefore : get(table, k) = Ok(None)

C9_Witness ==
    /\ res.op = "delete_range"
    /\ res.ret.ok /\ res.ret.val = 2
    /\ res.range.end.b = "Included" /\ res.range.end.key \in DOMAIN res.pre
    /\ DOMAIN table # {}

\* C10: after clear() the table has no entries until the next insertion:
\* is_empty() returns true, len() returns 0 and get returns None for every
\* key.
C10_ClearEmpties ==
    cleared =>
        /\ DOMAIN table = {}
        /\ is_empty(table) = Ok(TRUE)
        /\ len(table) = Ok(0)
        /\ \A k \in Keys : get(table, k) = Ok(None)
        /\ res.op = "is_empty" => res.ret = Ok(TRUE)
        /\ res.op = "len" => res.ret = Ok(0)
        /\ res.op = "get" => res.ret = Ok(None)

C10_Witness == res.op = "clear" /\ cleared /\ Cardinality(DOMAIN res.pre) = 3

\* The result is the entry of the table with the greatest key of S, or None
\* when S is empty.
IsGreatestOf(ret, S) ==
    /\ ret.ok
    /\ ret.val = None <=> S = {}
    /\ ret.val # None =>
          /\ ret.val[1][1] \in S \cap DOMAIN table
          /\ \A k \in S : LexLeq(k, ret.val[1][1])
          /\ ret.val[1][2] = table[ret.val[1][1]]

\* The result is the entry of the table with the least key of S, or None
\* when S is empty.
IsLeastOf(ret, S) ==
    /\ ret.ok
    /\ ret.val = None <=> S = {}
    /\ ret.val # None =>
          /\ ret.val[1][1] \in S \cap DOMAIN table
          /\ \A k \in S : LexLeq(ret.val[1][1], k)
          /\ ret.val[1][2] = table[ret.val[1][1]]

C12_AppendInOrderOnly ==
    res.op = "append" =>
        IF \A k \in DOMAIN res.pre : LexLess(k, res.key)
        THEN /\ res.ret.ok
             /\ table = put(res.pre, res.key, res.data).t
        ELSE /\ ~res.ret.ok
             /\ res.ret.val = "MDB_KEYEXIST"
             /\ table = res.pre

C12_Witness ==
    /\ res.op = "append"
    /\ ~res.ret.ok
    /\ Cardinality(DOMAIN table) = 2
    /\ res.key \notin DOMAIN table
    /\ \E k \in DOMAIN table : LexLess(k, res.key)
    /\ \E k \in DOMAIN table : LexLess(res.key, k)

\* C13: delete(k) returns true exactly when k was present, and k is absent
\* afterwards; on an absent key it returns false, not an error, and the
\* table is unchanged.
C13_DeleteReportsPresence ==
    res.op = "delete" =>
        /\ res.ret.ok
        /\ res.ret.val <=> res.key \in DOMAIN res.pre
        /\ res.key \notin DOMAIN table
        /\ res.key \notin DOMAIN res.pre => table = res.pre

C13_Witness ==
    /\ res.op = "delete"
    /\ res.ret = Ok(FALSE)
    /\ table # EmptyTable
    /\ table = res.pre

\* C14: get_lower_than(k) returns the entry with the greatest key strictly
\* below k, or None when there is none: the last entry of the table when
\* every key is below k, the entry just before k's when k is present.
C14_GetLowerThan ==
    res.op = "get_lower_than" =>
        /\ IsGreatestOf(res.ret, {k \in DOMAIN table : LexLess(k, res.key)})
        /\ (\A k \in DOMAIN table : LexLess(k, res.key)) =>
              res.ret = last(table)

C14_Witness ==
    /\ res.op = "get_lower_than"
    /\ Cardinality(DOMAIN table) >= 2
    /\ \A k \in DOMAIN table : LexLess(k, res.key)
    /\ res.ret.ok /\ res.ret.val # None
    /\ res.ret = last(table)

\* C15: get_lower_than_or_equal_to(k) returns the entry of k when k is
\* present, otherwise the entry with the greatest key below k, or None when
\* there is none; when every key is below k it returns the last entry.
C15_GetLowerThanOrEqualTo ==
    res.op = "get_lower_than_or_equal_to" =>
        /\ IsGreatestOf(res.ret, {k \in DOMAIN table : LexLeq(k, res.key)})
        /\ res.key \in DOMAIN table =>
              res.ret.val = Some(Entry(table, res.key))
        /\ (\A k \in DOMAIN table : LexLess(k, res.key)) =>
              res.ret = last(table)

C15_Witness ==
    /\ res.op = "get_lower_than_or_equal_to"
    /\ res.key \in DOMAIN table
    /\ \E k \in DOMAIN table : LexLess(k, res.key)
    /\ res.ret = Ok(Some(Entry(table, res.key)))

\* C16: get_greater_than(k) returns the entry with the smallest key
\* strictly above k, or None when there is none: the entry just after k's
\* when k is present, None when k is the greatest key.
C16_GetGreaterThan ==
    res.op = "get_greater_than" =>
        /\ IsLeastOf(res.ret, {k \in DOMAIN table : LexLess(res.key, k)})
        /\ (\A k \in DOMAIN table : LexLeq(k, res.key)) =>
              res.ret = Ok(None)

C16_Witness ==
    /\ res.op = "get_greater_than"
    /\ res.key \in DOMAIN table
    /\ res.ret.ok /\ res.ret.val # None
    /\ LexLess(res.key, res.ret.val[1][1])

\* C17: get_greater_than_or_equal_to(k) returns the entry with the smallest
\* key at or above k, or None when there is none.
C17_GetGreaterThanOrEqualTo ==
    res.op = "get_greater_than_or_equal_to" =>
        IsLeastOf(res.ret, {k \in DOMAIN table : LexLeq(res.key, k)})

C17_Witness ==
    /\ res.op = "get_greater_than_or_equal_to"
    /\ res.key \in DOMAIN table
    /\ \E k \in DOMAIN table : LexLess(res.key, k)
    /\ res.ret = Ok(Some(Entry(table, res.key)))

\* C18: first() and last() return the entry with the smallest and with the
\* greatest key, whatever the order the entries were inserted in, and None
\* exactly when the table is empty.
C18_FirstAndLast ==
    /\ res.op = "first" => IsLeastOf(res.ret, DOMAIN table)
    /\ res.op = "last" => IsGreatestOf(res.ret, DOMAIN table)

C18_Witness ==
    /\ res.op = "last"
    /\ Cardinality(DOMAIN table) >= 2
    /\ res.ret.ok /\ res.ret.val # None
    /\ \A k \in DOMAIN table : LexLeq(k, res.ret.val[1][1])

\* C19: after any sequence of put, put_reserved, append, delete,
\* delete_range, clear, del_current and put_current, len() is the number of
\* distinct keys in the table: a put of a new key raises it by one, a put on
\* a present key and a put_current leave it as it was, a successful delete
\* or del_current lowers it by one.
C19_LenCountsKeys ==
    /\ len(table) = Ok(Cardinality(DOMAIN written))
    /\ res.op = "len" => res.ret = Ok(Cardinality(DOMAIN written))
    /\ (res.op = "put" /\ res.key \notin DOMAIN res.pre) =>
          len(table).val = len(res.pre).val + 1
    /\ (res.op = "put" /\ res.key \in DOMAIN res.pre) =>
          len(table) = len(res.pre)
    /\ (res.op = "delete" /\ res.ret = Ok(TRUE)) =>
          len(table).val = len(res.pre).val - 1
    /\ edit.op = "put_current" => len(table) = len(edit.pre)
    /\ (edit.op = "del_current" /\ edit.ret = Ok(TRUE)) =>
          len(table).val = len(edit.pre).val - 1

C19_Witness ==
    /\ res.op = "len"
    /\ res.ret = Ok(2)
    /\ \E k \in DOMAIN table : table[k] = <<0>>

\* The live iterator is a forward mutable iterator.
ForwardMut ==
    /\ res.op \in {"iter_mut", "range_mut", "prefix_iter_mut"}
    /\ it.kind # "none"

\* The key is one the live iterator is to visit: in its interval, with its
\* prefix.
InScope(key) ==
    /\ InRange(key, res.range)
    /\ res.op = "prefix_iter_mut" => HasPrefix(key, res.key)

\* The keys yielded.
YieldedKeys == {yielded[n].val[1] : n \in 1..Len(yielded)}

\* C20: in a forward mutable iterator (iter_mut, range_mut,
\* prefix_iter_mut), del_current after a next() that yielded an entry
\* removes exactly that entry and returns true, and the next() after it
\* yields the entry that followed the removed one: the keys yielded are, in
\* increasing order and once each, the keys the iterator found in its scope
\* when it was made, up to the last one yielded.
C20_DelCurrentKeepsForwardIteration ==
    ForwardMut =>
        /\ (edit.op = "del_current" /\ ~edit.gone) =>
              /\ edit.ret = Ok(TRUE)
              /\ LastYieldedKey \in DOMAIN edit.pre
              /\ table = [k \in DOMAIN edit.pre \ {LastYieldedKey} |->
                            edit.pre[k]]
        /\ YieldedInOrder
        /\ YieldedKeys =
              {k \in DOMAIN res.pre :
                  /\ InScope(k)
                  /\ \/ Exhausted
                     \/ yielded # <<>> /\ LexLeq(k, LastYieldedKey)}

C20_Witness ==
    /\ res.op = "iter_mut"
    /\ it.kind # "none"
    /\ Cardinality(DOMAIN res.pre) = 3
    /\ Len(yielded) = 2
    /\ yielded[1].val[1] \notin DOMAIN table
    /\ yielded[2].val[1] \in DOMAIN table

\* The live iterator is a reverse mutable iterator.
ReverseMut ==
    /\ res.op \in {"rev_iter_mut", "rev_range_mut", "rev_prefix_iter_mut"}
    /\ it.kind # "none"

\* The key is one the live reverse iterator is to visit: in its interval,
\* with its prefix.
InReverseScope(key) ==
    /\ InRange(key, res.range)
    /\ res.op = "rev_prefix_iter_mut" => HasPrefix(key, res.key)

\* Every item yielded is an entry, and their keys decrease strictly.
YieldedInReverseOrder ==
    /\ \A n \in 1..Len(yielded) : yielded[n].ok
    /\ \A m, n \in 1..Len(yielded) :
          m < n => LexLess(yielded[n].val[1], yielded[m].val[1])

\* C21: in a reverse mutable iterator (rev_iter_mut, rev_range_mut,
\* rev_prefix_iter_mut), del_current after a next() that yielded an entry
\* removes exactly that entry, and the next() after it yields the entry that
\* preceded the removed one, also when the removed entry was the last entry
\* of the table: the keys yielded are, in decreasing order and once each,
\* the keys the iterator found in its scope when it was made, down to the
\* last one yielded.
C21_DelCurrentKeepsReverseIteration ==
    ReverseMut =>
        /\ (edit.op = "del_current" /\ ~edit.gone) =>
              /\ edit.ret = Ok(TRUE)
              /\ LastYieldedKey \in DOMAIN edit.pre
              /\ table = [k \in DOMAIN edit.pre \ {LastYieldedKey} |->
                            edit.pre[k]]
        /\ YieldedInReverseOrder
        /\ YieldedKeys =
              {k \in DOMAIN res.pre :
                  /\ InReverseScope(k)
                  /\ \/ Exhausted
                     \/ yielded # <<>> /\ LexLeq(LastYieldedKey, k)}

\* The last entry of a table of three was yielded first and removed, and the
\* entry before it was yielded next.
C21_Witness ==
    /\ res.op = "rev_iter_mut"
    /\ it.kind # "none"
    /\ Cardinality(DOMAIN res.pre) = 3
    /\ Len(yielded) = 2
    /\ \A k \in DOMAIN res.pre : LexLeq(k, yielded[1].val[1])
    /\ yielded[1].val[1] \notin DOMAIN table
    /\ yielded[2].val[1] \in DOMAIN table

C23_ForeignTxnFailsFast ==
    (res.op # "none" /\ res.txn.env # database.env_ident) =>
        /\ res.ret = Panic(EnvMismatch)
        /\ table = res.pre
        /\ other = OtherTable
        /\ it = NoIter

C23_Witness ==
    /\ res.op = "put"
    /\ res.txn.env # database.env_ident
    /\ res.ret = Panic(EnvMismatch)
    /\ res.key \notin DOMAIN table
    /\ table # EmptyTable

HeldMut == {h \in held : h.op \in MutConstructors}

\* C25: within the write transaction at most one mutable iterator is live at
\* any time; while it is live the caller holds nothing else of the
\* transaction but entries that iterator yielded, and no method of the
\* handle runs (no other iterator is made, no get, put, delete or clear):
\* every call that ran, ran while no mutable iterator and no entry of one
\* was held.
C25_OneMutableIteratorAlone ==
    /\ Cardinality(HeldMut) <= 1
    /\ HeldMut # {} =>
          \A h \in held \ HeldMut :
              h.op \in RwKinds /\ h.param = "&'txn mut RwTxn"
    /\ res.op \in Methods =>
          res.held \cap (MutConstructors \cup RwKinds) = {}

C25_Witness ==
    /\ Cardinality(held) = 2
    /\ \E h \in held : h.op = "rev_iter_mut" /\ h.it.state = "positioned"
    /\ \E h \in held : h.op = "RwRevIter"
    /\ table # EmptyTable

\* The other handle of the two.
Twin(h) == IF h = "Database" THEN "PolyDatabase" ELSE "Database"

RoKinds ==
    {"RoIter", "RoRevIter", "RoRange", "RoRevRange", "RoPrefix",
     "RoRevPrefix"}

\* C27: no value or entry that borrows from the transaction's memory (a
\* result of get, first, last or a neighbor query, or an entry a read-only
\* iterator yielded) is still held by the caller when put, put_reserved,
\* append, delete or clear is performed on the write transaction.
C27_NothingHeldAcrossMutation ==
    res.op \in {"put", "put_reserved", "append", "delete", "clear"} =>
        res.held \cap (Lookups \cup RoKinds) = {}

\* The keys of the interval of the call that its key codec does not decode:
\* the steps of the traversal that yield a decoding error.
Undecoded ==
    {k \in DOMAIN res.pre :
        InRange(k, res.range) /\ ~bytes_decode(res.kc, k).ok}

\* C28: delete_range returns the error of the step of its traversal that
\* yields one, an engine error or a key decoding error, and neither deletes
\* nor counts the entry at that step.
C28_DeleteRangePropagatesErrors ==
    res.op = "delete_range" =>
        /\ res.failure # "MDB_SUCCESS" =>
              res.ret = Err(res.failure) /\ table = res.pre
        /\ (res.failure = "MDB_SUCCESS" /\ Undecoded # {}) =>
              res.ret = Err("Decoding") /\ LexMin(Undecoded) \in DOMAIN table

\* C29: put_reserved inserts the key with a region of data_size bytes before
\* it calls the writer, and a call that fails because the writer failed or
\* left bytes unwritten is not rolled back: the key is then present, get
\* finds a value of data_size bytes, made of the bytes the writer wrote and
\* of what the storage held, and the previous value of the key is gone; the
\* other entries are as before.
C29_FailedPutReservedStays ==
    (res.op = "put_reserved" /\ ~res.ret.ok) =>
        LET wrote == IF Len(res.data) <= res.data_size THEN Len(res.data) ELSE 0
            left  == [n \in 1..res.data_size |->
                         IF n <= wrote THEN res.data[n] ELSE res.region[n]]
        IN  /\ res.ret.val \in {"UnexpectedEof", "WriteZero"}
            /\ DOMAIN table = DOMAIN res.pre \cup {res.key}
            /\ get(table, res.key) = Ok(Some(left))
            /\ Len(table[res.key]) = res.data_size
            /\ \A k \in DOMAIN table \ {res.key} : table[k] = res.pre[k]

C29_Witness ==
    /\ res.op = "put_reserved"
    /\ res.ret = Err("UnexpectedEof")
    /\ res.key \in DOMAIN res.pre
    /\ Len(res.pre[res.key]) = 1
    /\ res.data_size = 2
    /\ table[res.key] # res.pre[res.key]
    /\ Cardinality(DOMAIN table) = 2

\* C30: rev_range with an Included upper bound hi.  When hi is a key of the
\* table, the first entry yielded is the entry of hi; when the seek for hi
\* lands on a greater key, the iterator steps back once and the first entry
\* yielded is that of the greatest key less than hi; each provided the key
\* satisfies the lower bound, and nothing is yielded otherwise.
C30_RevRangeStartsAtIncludedEnd ==
    (/\ res.op = "rev_range"
     /\ it.kind = "RoRevRange"
     /\ it.state # "unstarted"
     /\ res.range.end.b = "Included") =>
        LET hi    == res.range.end.key
            Below == {k \in DOMAIN table : LexLess(k, hi)}
            Above == {k \in DOMAIN table : LexLess(hi, k)}
            FirstIs(k) ==
                IF AboveStart(k, res.range.start)
                THEN yielded # <<>> /\ yielded[1] = Ok(Entry(table, k))
                ELSE yielded = <<>>
        IN  /\ hi \in DOMAIN table => FirstIs(hi)
            /\ (hi \notin DOMAIN table /\ Above # {}) =>
                  IF Below = {} THEN yielded = <<>> ELSE FirstIs(LexMax(Below))

C30_Witness ==
    /\ res.op = "rev_range"
    /\ it.kind = "RoRevRange"
    /\ res.range.end.b = "Included"
    /\ res.range.end.key \notin DOMAIN table
    /\ \E k \in DOMAIN table : LexLess(res.range.end.key, k)
    /\ res.range.start.b = "Included"
    /\ Len(yielded) = 2
    /\ LexLess(yielded[1].val[1], res.range.end.key)

\* C31: rev_range with an Excluded upper bound hi that is a key of the table
\* never yields the entry of hi: the first entry yielded is that of the
\* greatest key strictly less than hi when that key satisfies the lower
\* bound, and nothing is yielded otherwise.
C31_RevRangeSkipsExcludedEnd ==
    (/\ res.op = "rev_range"
     /\ it.kind = "RoRevRange"
     /\ it.state # "unstarted"
     /\ res.range.end.b = "Excluded"
     /\ res.range.end.key \in DOMAIN table) =>
        LET hi    == res.range.end.key
            Below == {k \in DOMAIN table : LexLess(k, hi)}
        IN  /\ \A n \in 1..Len(yielded) :
                  yielded[n].ok /\ yielded[n].val[1] # hi
            /\ IF Below # {} /\ AboveStart(LexMax(Below), res.range.start)
               THEN /\ yielded # <<>>
                    /\ yielded[1] = Ok(Entry(table, LexMax(Below)))
               ELSE yielded = <<>>

C31_Witness ==
    /\ res.op = "rev_range"
    /\ it.kind = "RoRevRange"
    /\ res.range.end = Excluded(<<1>>)
    /\ res.range.start = Included(<<0, 255>>)
    /\ DOMAIN table = {<<0>>, <<0, 255>>, <<1>>}
    /\ yielded = <<Ok(Entry(table, <<0, 255>>))>>
    /\ it.state = "exhausted"

OutsideKept ==
    \A k \in (DOMAIN table \cup DOMAIN res.pre) :
        ~InRange(k, res.range) =>
            /\ k \in DOMAIN table
            /\ k \in DOMAIN res.pre
            /\ table[k] = res.pre[k]

\* C34: delete_range(interval) leaves every entry whose key is outside the
\* interval in the table with its value, and an iteration by range_mut or
\* rev_range_mut with del_current and put_current changes only entries
\* whose key is inside the interval.
C34_OnlyTheIntervalChanges ==
    /\ res.op = "delete_range" => OutsideKept
    /\ (res.op \in {"range_mut", "rev_range_mut"} /\ it.kind # "none") =>
          OutsideKept

\* C35: in every reachable state of the table, is_empty() is true exactly
\* when len() is 0, exactly when first() is None, exactly when last() is
\* None; and the result of the one of them that was last called agrees with
\* what the others give on the table it left.
C35_EmptinessAgrees ==
    LET empty   == is_empty(table).ok /\ is_empty(table).val = TRUE
        zero    == len(table).ok /\ len(table).val = 0
        nofirst == first(table).ok /\ first(table).val = None
        nolast  == last(table).ok /\ last(table).val = None
    IN  /\ empty <=> zero
        /\ zero <=> nofirst
        /\ nofirst <=> nolast
        /\ res.op = "is_empty" => (res.ret = Ok(TRUE) <=> zero)
        /\ res.op = "len" => (res.ret = Ok(0) <=> nofirst)
        /\ res.op = "first" => (res.ret = Ok(None) <=> nolast)
        /\ res.op = "last" => (res.ret = Ok(None) <=> empty)

\* is_empty has found the table empty after it had held entries.
C35_Witness ==
    /\ res.op = "is_empty"
    /\ res.ret = Ok(TRUE)
    /\ cleared
    /\ len(table) = Ok(0)
    /\ first(table) = Ok(None)

\* The item has no encoding.
Unencodable(item) == ~bytes_encode(item).ok

\* One of the bounds of the interval is an item without an encoding.
UnencodableBound(r) ==
    \/ r.start.b # "Unbounded" /\ Unencodable(r.start.key)
    \/ r.end.b # "Unbounded" /\ Unencodable(r.end.key)

\* The last call returned an encoding error, left the table as it was and
\* made no iterator.
EncodingErrorOnly ==
    /\ ~res.ret.ok
    /\ res.ret.val = "Encoding"
    /\ table = res.pre
    /\ it = NoIter

\* C36: put and append encode the key and the value before any engine
\* write: when either encoding fails the call returns an encoding error and
\* the table is unchanged.  Likewise delete and put_reserved with a key, the
\* ranged constructors with a bound and the prefix constructors with a
\* prefix that has no encoding return the encoding error and do not modify
\* the table.
C36_EncodingErrorsWriteNothing ==
    /\ (/\ res.op \in {"put", "append"}
        /\ Unencodable(res.key) \/ Unencodable(res.data)) => EncodingErrorOnly
    /\ (/\ res.op \in {"delete", "put_reserved"}
        /\ Unencodable(res.key)) => EncodingErrorOnly
    /\ (/\ res.op \in {"range", "range_mut", "rev_range", "rev_range_mut"}
        /\ UnencodableBound(res.range)) => EncodingErrorOnly
    /\ (/\ res.op \in {"prefix_iter", "prefix_iter_mut", "rev_prefix_iter",
                        "rev_prefix_iter_mut"}
        /\ Unencodable(res.key)) => EncodingErrorOnly

\* A put whose key has an encoding and whose value has none, on a table
\* that holds other keys.
C36_Witness ==
    /\ res.op = "put"
    /\ ~Unencodable(res.key)
    /\ Unencodable(res.data)
    /\ res.ret = Err("Encoding")
    /\ res.failure = "MDB_SUCCESS"
    /\ table # EmptyTable
    /\ res.key \notin DOMAIN table

\* C37: delete_range terminates.  Its loop calls del_current at most once
\* per entry that was in the interval when the call started, and the call
\* ends when the iterator gives None, returning the count of the entries
\* removed, or at the first error of del_current, returning that error.
C37_DeleteRangeLoopBounded ==
    res.op = "delete_range" =>
        /\ res.dels <= Cardinality(KeysInRangeBefore)
        /\ res.ret.ok => res.ret.val = res.dels
        /\ ~res.ret.ok => it.kind = "none"

\* The interval holds no key: its start is above its end, or they are the
\* same key and one of the two bounds is Excluded.
EmptyInterval(r) ==
    /\ r.start.b # "Unbounded"
    /\ r.end.b # "Unbounded"
    /\ \/ LexLess(r.end.key, r.start.key)
       \/ r.start.key = r.end.key /\ "Excluded" \in {r.start.b, r.end.b}

\* C38: over an interval that holds no key, range and rev_range are made
\* without an error and their first next() gives None, nothing being
\* yielded; delete_range returns 0 and leaves the table as it was.
C38_EmptyIntervalYieldsNothing ==
    /\ (res.op \in {"range", "rev_range"} /\ EmptyInterval(res.range)) =>
          /\ it.kind \in {"RoRange", "RoRevRange"}
          /\ yielded = <<>>
          /\ it.state \in {"unstarted", "exhausted"}
          /\ it.state = "exhausted" => res.ret = None
    /\ (res.op = "delete_range" /\ EmptyInterval(res.range)) =>
          /\ res.ret.ok
          /\ res.ret.val = 0
          /\ table = res.pre

\* The first next() of a reverse iterator over an interval whose start is
\* above its end, on a table with keys on both sides of the end.
C38_Witness ==
    /\ res.op = "rev_range"
    /\ res.range = [start |-> Included(<<255>>), end |-> Included(<<1>>)]
    /\ it.state = "exhausted"
    /\ DOMAIN table = {<<0>>, <<1>>, <<255>>}

\* The entries a forward iteration of the table t yields, without the entry
\* of the key k.
OthersInOrder(t, k) ==
    LET NotK(item) == item.val[1] # k
    IN  SelectSeq(Drain(t, iter.val), NotK)

\* C39: a point mutation changes at most the entry of its own key.  After
\* put(k, v), a successful put_reserved(k, ..), a successful append(k, v) or
\* delete(k), every key other than k is in the table exactly when it was
\* before, with the same value, and an iteration yields the other entries
\* in the order it yielded them before.
C39_PointMutationFrame ==
    (\/ res.op \in {"put", "delete"}
     \/ res.op \in {"put_reserved", "append"} /\ res.ret.ok) =>
        /\ \A x \in (DOMAIN table \cup DOMAIN res.pre) \ {res.key} :
              /\ x \in DOMAIN table
              /\ x \in DOMAIN res.pre
              /\ table[x] = res.pre[x]
        /\ OthersInOrder(table, res.key) = OthersInOrder(res.pre, res.key)

\* A successful append after two other keys.
C39_Witness ==
    /\ res.op = "append"
    /\ res.ret.ok
    /\ res.key \notin DOMAIN res.pre
    /\ Cardinality(DOMAIN res.pre) = 2
    /\ Len(OthersInOrder(table, res.key)) = 2

TypeOK ==
    /\ DOMAIN table \subseteq Keys
    /\ Cardinality(DOMAIN table) <= MaxEntries
    /\ it.state \in {"unstarted", "positioned", "exhausted"}

====
